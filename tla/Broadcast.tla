----------------------------- MODULE Broadcast -----------------------------
(***************************************************************************)
(* One caff::Broadcast object (src/src/broadcast.cpp) and the threads that *)
(* run its code:                                                           *)
(*                                                                         *)
(*   app      the Qt main thread: start(), stop(), and giving up the       *)
(*            owner's shared_ptr (Instance::endBroadcast)                  *)
(*   worker   broadcastThread_: subscribe, wait for the subscription, go   *)
(*            live, heartbeat until stopped                                *)
(*   ws       WebsocketClient::clientThread_: the subscription's message   *)
(*            and ended handlers, one at a time                            *)
(*   snap     the detached thread that uploads the first thumbnail         *)
(*                                                                         *)
(* A step is what a thread does between two reads or writes of state that  *)
(* another thread shares; an HTTP request is one step, with every outcome  *)
(* the request can have.  The realtime and stage servers are the           *)
(* environment.                                                            *)
(***************************************************************************)
EXTENDS Naturals

CONSTANTS
  MaxFailures,  \* max_failures of startHeartbeat: 5
  MaxTry        \* tryNum saturates here: backoffDuration is 20 s from 19 on

ASSUME MaxFailuresAssumption == MaxFailures \in Nat
ASSUME MaxTryAssumption == MaxTry \in Nat \ {0}

VARIABLES
  broadcastState,     \* std::atomic<BroadcastState>
  subscription,       \* subscription_: null, or how far that object has got
  tryNum,             \* the attempt number its ended handler has captured
  subscriptionState,  \* what the stage updates have shown so far
  opened,             \* the promise subscriptionOpened_ has its value
  stageLive,          \* payload->stage.live of the update being handled
  appPc, workerPc, wsPc, snapPc,
  failures,           \* heartbeats failed in a row
  alive,              \* ~Broadcast has not run to its end
  started,            \* startedCallback has been called
  reported,           \* the failures failedCallback_ has been called with
  stageStarted,       \* the server may hold a stage this object started
  lost,               \* a start or stop request got no usable answer
  fault               \* how the process died, "none" while it lives

appVars == <<appPc>>
subVars == <<subscription, tryNum>>
wsVars == <<wsPc, subscriptionState, opened, stageLive>>
reports == <<started, reported>>
server == <<stageStarted, lost>>

vars == <<broadcastState, subVars, wsVars, appVars, workerPc, snapPc,
          failures, alive, reports, server, fault>>

BroadcastStates == {"Offline", "Starting", "Streaming", "Live", "Stopping"}

Subscriptions ==
  {"null",        \* subscription_ == nullptr
   "fresh",       \* assigned, connect() not yet called on it
   "connecting", "open",
   "ended"}       \* its connection has failed or closed

SubscriptionStates == {"None", "Open", "FeedHasAppeared", "StageHasGoneLive"}

Failures ==
  {"StageSubscriptionTimeOut", "BroadcastFailed", "Disconnected", "Takeover"}

Faults == {"none", "nullSubscription", "emptyOptional", "uncaughtException",
           "selfJoin", "useAfterFree"}

AppPcs == {"created", "running", "reset", "join", "stopped", "released"}

WorkerPcs == {"none", "subscribe", "connect", "toStreaming", "require",
              "awaitOpen", "startBroadcast", "toLive", "undoStart", "callStarted",
              "loop", "beat", "exit", "stopBroadcast", "done"}

\* Where the ws thread stands inside a handler that has locked the Broadcast.
HoldingPcs == {"checkOnline", "checkLive", "failTakeover", "failErrors",
               "resubscribe", "connect", "pause", "leave"}

WsPcs == {"idle", "backoff"} \cup HoldingPcs

SnapPcs == {"none", "sleeping", "uploading", "done"}

TypeOK ==
  /\ broadcastState \in BroadcastStates
  /\ subscription \in Subscriptions
  /\ tryNum \in 1..MaxTry
  /\ subscriptionState \in SubscriptionStates
  /\ opened \in BOOLEAN
  /\ stageLive \in BOOLEAN
  /\ appPc \in AppPcs
  /\ workerPc \in WorkerPcs
  /\ wsPc \in WsPcs
  /\ snapPc \in SnapPcs
  /\ failures \in 0..(MaxFailures + 1)
  /\ alive \in BOOLEAN
  /\ started \in BOOLEAN
  /\ reported \subseteq Failures
  /\ stageStarted \in BOOLEAN
  /\ lost \in BOOLEAN
  /\ fault \in Faults

Init ==
  /\ broadcastState = "Offline"
  /\ subscription = "null"
  /\ tryNum = 1
  /\ subscriptionState = "None"
  /\ opened = FALSE
  /\ stageLive = FALSE
  /\ appPc = "created"
  /\ workerPc = "none"
  /\ wsPc = "idle"
  /\ snapPc = "none"
  /\ failures = 0
  /\ alive = TRUE
  /\ started = FALSE
  /\ reported = {}
  /\ stageStarted = FALSE
  /\ lost = FALSE
  /\ fault = "none"

-----------------------------------------------------------------------------
(* Helpers shared by the threads *)

\* isOnline()
IsOnline == broadcastState \in {"Streaming", "Live"}

\* The states in which the ended handler subscribes again.
WantsSubscription == broadcastState \in {"Starting", "Streaming", "Live"}

\* Mutant: a plain store instead of the compare-and-swap.
TransitionByStore(expected, new, Success, Failure) == broadcastState' = new /\ Success

\* transitionBroadcastState: the compare-and-swap, and what follows success
\* and failure.
Transition(expected, new, Success, Failure) ==
  IF broadcastState = expected
  THEN broadcastState' = new /\ Success
  ELSE UNCHANGED broadcastState /\ Failure

Report(failure) == reported' = reported \cup {failure} /\ UNCHANGED started

\* setupSubscription, first half: a new subscription replaces the old one.
AssignSubscription == subscription' = "fresh"

\* setupSubscription, second half: subscription_->connect() through the shared
\* pointer, which a stop() may have reset since.
ConnectSubscription ==
  IF subscription = "null"
  THEN fault' = "nullSubscription" /\ UNCHANGED subscription
  ELSE subscription' = "connecting" /\ UNCHANGED fault

\* StopBroadcast: acted on, or without an answer and then maybe acted on.
RequestStopBroadcast ==
  \/ stageStarted' = FALSE /\ UNCHANGED lost
  \/ stageStarted' \in {FALSE, stageStarted} /\ lost' = TRUE

-----------------------------------------------------------------------------
(* The application thread *)

\* start(): the result of the transition is not looked at.
Start ==
  /\ appPc = "created"
  /\ Transition("Offline", "Starting", TRUE, TRUE)
  /\ workerPc' = "subscribe"
  /\ appPc' = "running"
  /\ UNCHANGED <<subVars, wsVars, snapPc, failures, alive, reports, server, fault>>

\* stop(): announce it...
StopAnnounce ==
  /\ appPc \in {"created", "running"}
  /\ broadcastState' = "Stopping"
  /\ appPc' = "reset"
  /\ UNCHANGED <<subVars, wsVars, workerPc, snapPc, failures, alive, reports, server, fault>>

\* ... drop the subscription, whatever the other threads are doing with it...
StopReset ==
  /\ appPc = "reset"
  /\ subscription' = "null"
  /\ appPc' = "join"
  /\ UNCHANGED <<broadcastState, tryNum, wsVars, workerPc, snapPc, failures, alive,
                 reports, server, fault>>

\* Mutant: the thread is detached instead of joined.
StopWithoutJoin ==
  /\ appPc = "join"
  /\ broadcastState' = "Offline"
  /\ appPc' = "stopped"
  /\ UNCHANGED <<subVars, wsVars, workerPc, snapPc, failures, alive, reports, server, fault>>

\* ... join broadcastThread_, if it was ever started, and be offline.
StopJoin ==
  /\ appPc = "join"
  /\ workerPc \in {"none", "done"}
  /\ broadcastState' = "Offline"
  /\ appPc' = "stopped"
  /\ UNCHANGED <<subVars, wsVars, workerPc, snapPc, failures, alive, reports, server, fault>>

\* Instance::endBroadcast hands the last owning pointer to a detached thread
\* that drops it: ~Broadcast runs there unless the ws thread holds the object.
Release ==
  /\ appPc = "stopped"
  /\ appPc' = "released"
  /\ IF wsPc \in HoldingPcs
     THEN UNCHANGED <<alive, subscription>>
     ELSE alive' = FALSE /\ subscription' = "null"
  /\ UNCHANGED <<broadcastState, tryNum, wsVars, workerPc, snapPc, failures, reports,
                 server, fault>>

App == Start \/ StopAnnounce \/ StopReset \/ StopJoin \/ Release

-----------------------------------------------------------------------------
(* broadcastThread_ *)

Goto(pc) == workerPc' = pc

WorkerSubscribe ==
  /\ workerPc = "subscribe"
  /\ AssignSubscription
  /\ tryNum' = 1
  /\ Goto("connect")
  /\ UNCHANGED <<broadcastState, failures, reports, server, fault, snapPc>>

WorkerConnect ==
  /\ workerPc = "connect"
  /\ ConnectSubscription
  /\ Goto("toStreaming")
  /\ UNCHANGED <<broadcastState, tryNum, failures, reports, server, snapPc>>

ToStreaming ==
  /\ workerPc = "toStreaming"
  /\ Transition("Starting", "Streaming", Goto("require"), Goto("done"))
  /\ UNCHANGED <<subVars, failures, reports, server, fault, snapPc>>

\* requireBroadcastState(Streaming) at the head of startHeartbeat.
RequireStreaming ==
  /\ workerPc = "require"
  /\ Goto(IF broadcastState = "Streaming" THEN "awaitOpen" ELSE "done")
  /\ UNCHANGED <<broadcastState, subVars, failures, reports, server, fault, snapPc>>

SubscriptionOpened ==
  /\ workerPc = "awaitOpen"
  /\ opened
  /\ Goto("startBroadcast")
  /\ UNCHANGED <<broadcastState, subVars, failures, reports, server, fault, snapPc>>

\* Mutant: the return after the report is missing.
TimesOutAndGoesOn ==
  /\ workerPc = "awaitOpen"
  /\ ~opened
  /\ Report("StageSubscriptionTimeOut")
  /\ Goto("startBroadcast")
  /\ UNCHANGED <<broadcastState, subVars, failures, server, fault, snapPc>>

\* Mutant: the return without the report.
TimesOutSilently ==
  /\ workerPc = "awaitOpen"
  /\ ~opened
  /\ Goto("done")
  /\ UNCHANGED <<broadcastState, subVars, failures, reports, server, fault, snapPc>>

\* wait_for(5s) ran out; it can at any time before the promise is kept.
SubscriptionTimesOut ==
  /\ workerPc = "awaitOpen"
  /\ ~opened
  /\ Report("StageSubscriptionTimeOut")
  /\ Goto("done")
  /\ UNCHANGED <<broadcastState, subVars, failures, server, fault, snapPc>>

StartBroadcastAccepted ==
  /\ workerPc = "startBroadcast"
  /\ stageStarted' = TRUE
  /\ Goto("toLive")
  /\ UNCHANGED <<broadcastState, subVars, failures, reports, lost, fault, snapPc>>

\* Mutant: the return after the report is missing.
RefusedAndGoesOn ==
  /\ workerPc = "startBroadcast"
  /\ Report("BroadcastFailed")
  /\ Goto("toLive")
  /\ UNCHANGED <<broadcastState, subVars, failures, server, fault, snapPc>>

StartBroadcastRefused ==
  /\ workerPc = "startBroadcast"
  /\ Report("BroadcastFailed")
  /\ Goto("done")
  /\ UNCHANGED <<broadcastState, subVars, failures, server, fault, snapPc>>

\* A payload with no error whose stage is not live: the log line reads the
\* error it does not have, which may or may not end the process.
StartBroadcastNotLive ==
  /\ workerPc = "startBroadcast"
  /\ \/ fault' = "emptyOptional" /\ UNCHANGED <<reports, workerPc>>
     \/ UNCHANGED fault /\ Report("BroadcastFailed") /\ Goto("done")
  /\ UNCHANGED <<broadcastState, subVars, failures, server, snapPc>>

\* Every try failed or the answer was unreadable; the server may have acted.
StartBroadcastUnanswered ==
  /\ workerPc = "startBroadcast"
  /\ stageStarted' \in BOOLEAN
  /\ lost' = TRUE
  /\ Report("BroadcastFailed")
  /\ Goto("done")
  /\ UNCHANGED <<broadcastState, subVars, failures, fault, snapPc>>

\* Mutant: no StopBroadcast when stop() has come first.
ToLiveWithoutUndo ==
  /\ workerPc = "toLive"
  /\ Transition("Streaming", "Live", Goto("callStarted"), Goto("done"))
  /\ UNCHANGED <<subVars, failures, reports, server, fault, snapPc>>

ToLive ==
  /\ workerPc = "toLive"
  /\ Transition("Streaming", "Live", Goto("callStarted"), Goto("undoStart"))
  /\ UNCHANGED <<subVars, failures, reports, server, fault, snapPc>>

UndoStart ==
  /\ workerPc = "undoStart"
  /\ RequestStopBroadcast
  /\ Goto("done")
  /\ UNCHANGED <<broadcastState, subVars, failures, reports, fault, snapPc>>

\* startedCallback, then the detached snapshot thread is spawned.
CallStarted ==
  /\ workerPc = "callStarted"
  /\ started' = TRUE
  /\ snapPc' = "sleeping"
  /\ Goto("loop")
  /\ UNCHANGED <<broadcastState, subVars, failures, reported, server, fault>>

\* Mutant: the loop does not look at broadcastState_.
LoopForEver ==
  /\ workerPc = "loop"
  /\ Goto("beat")
  /\ UNCHANGED <<broadcastState, subVars, failures, reports, server, fault, snapPc>>

\* The loop condition.  The 100 ms polls between two heartbeats only read the
\* state again, so the next poll that matters is the one that finds it changed
\* or finds the heartbeat due.
LoopCheck ==
  /\ workerPc = "loop"
  /\ Goto(IF broadcastState = "Live" THEN "beat" ELSE "exit")
  /\ UNCHANGED <<broadcastState, subVars, failures, reports, server, fault, snapPc>>

HeartbeatSucceeds ==
  /\ workerPc = "beat"
  /\ failures' = 0
  /\ Goto("loop")
  /\ UNCHANGED <<broadcastState, subVars, reports, server, fault, snapPc>>

HeartbeatFails ==
  /\ workerPc = "beat"
  /\ failures' = failures + 1
  /\ IF failures + 1 > MaxFailures
     THEN Report("Disconnected") /\ Goto("exit")
     ELSE UNCHANGED reports /\ Goto("loop")
  /\ UNCHANGED <<broadcastState, subVars, server, fault, snapPc>>

\* A request throws, on JSON that lacks a field of the heartbeat's or of the
\* refreshed credentials: nothing on this thread catches it.
RequestThrows ==
  /\ workerPc \in {"startBroadcast", "undoStart", "beat", "stopBroadcast"}
  /\ fault' = "uncaughtException"
  /\ UNCHANGED <<broadcastState, subVars, workerPc, failures, reports, server, snapPc>>

\* After the loop: the server is told only if a stop() is why it ended.
Exit ==
  /\ workerPc = "exit"
  /\ Goto(IF broadcastState = "Stopping" THEN "stopBroadcast" ELSE "done")
  /\ UNCHANGED <<broadcastState, subVars, failures, reports, server, fault, snapPc>>

StopBroadcast ==
  /\ workerPc = "stopBroadcast"
  /\ RequestStopBroadcast
  /\ Goto("done")
  /\ UNCHANGED <<broadcastState, subVars, failures, reports, fault, snapPc>>

Worker ==
  /\ UNCHANGED <<wsVars, appVars, alive>>
  /\ \/ WorkerSubscribe \/ WorkerConnect
     \/ ToStreaming \/ RequireStreaming
     \/ SubscriptionOpened \/ SubscriptionTimesOut
     \/ StartBroadcastAccepted \/ StartBroadcastRefused
     \/ StartBroadcastNotLive \/ StartBroadcastUnanswered
     \/ ToLive \/ UndoStart \/ CallStarted
     \/ LoopCheck \/ HeartbeatSucceeds \/ HeartbeatFails
     \/ Exit \/ StopBroadcast \/ RequestThrows

-----------------------------------------------------------------------------
(* The websocket thread.  The handlers of a subscription that has been     *)
(* destroyed find their weak_ptr expired and do nothing, so only a         *)
(* subscription that is still held can cause a step.                       *)

WsOpened ==
  /\ wsPc = "idle"
  /\ subscription = "connecting"
  /\ subscription' = "open"
  /\ UNCHANGED <<broadcastState, tryNum, wsVars, reports, fault>>

\* A message says the credential has expired and the refresh works: the same
\* subscription connects again.
WsReauthenticate ==
  /\ wsPc = "idle"
  /\ subscription = "open"
  /\ subscription' = "connecting"
  /\ UNCHANGED <<broadcastState, tryNum, wsVars, reports, fault>>

\* The same, but the refresh throws.
WsRefreshThrows ==
  /\ wsPc = "idle"
  /\ subscription = "open"
  /\ fault' = "uncaughtException"
  /\ UNCHANGED <<broadcastState, subVars, wsVars, reports>>

\* The state after a stage update, before and after looking at the feed.
AfterOpen == IF subscriptionState = "None" THEN "Open" ELSE subscriptionState

\* Mutant: an update with the feed on a dark stage always means it has appeared.
AfterFeedAnew(feedIsOnStage, live) ==
  CASE feedIsOnStage /\ live  -> "StageHasGoneLive"
    [] feedIsOnStage /\ ~live -> "FeedHasAppeared"
    [] OTHER                  -> AfterOpen

AfterFeed(feedIsOnStage, live) ==
  CASE feedIsOnStage /\ live                       -> "StageHasGoneLive"
    [] feedIsOnStage /\ AfterOpen = "Open" /\ ~live -> "FeedHasAppeared"
    [] OTHER                                       -> AfterOpen

\* The checks that close the message handler.
SeenOnStage(state) == state \in {"FeedHasAppeared", "StageHasGoneLive"}
WentDark(state, live) == ~live /\ state = "StageHasGoneLive"

\* messageHandler with a stage update, up to its first look at broadcastState_.
WsStageUpdate(feedIsOnStage, live) ==
  /\ wsPc = "idle"
  /\ subscription = "open"
  /\ opened' = TRUE
  /\ subscriptionState' = AfterFeed(feedIsOnStage, live)
  /\ stageLive' = live
  /\ wsPc' = CASE ~feedIsOnStage /\ SeenOnStage(AfterOpen)         -> "checkOnline"
               [] feedIsOnStage /\ WentDark(AfterOpen, live)       -> "checkLive"
               [] OTHER                                            -> "leave"
  /\ UNCHANGED <<broadcastState, subVars, reports, fault>>

\* Mutant: a missing feed is a takeover in any state.
CheckOnlineInAnyState ==
  /\ wsPc = "checkOnline"
  /\ wsPc' = "failTakeover"
  /\ UNCHANGED <<broadcastState, subVars, subscriptionState, opened, stageLive, reports,
                 fault>>

\* The feed has gone: a failure if we think we are online.
WsCheckOnline ==
  /\ wsPc = "checkOnline"
  /\ wsPc' = CASE IsOnline -> "failTakeover"
               [] ~IsOnline /\ WentDark(subscriptionState, stageLive) -> "checkLive"
               [] OTHER -> "leave"
  /\ UNCHANGED <<broadcastState, subVars, subscriptionState, opened, stageLive, reports,
                 fault>>

\* The stage has gone dark: a failure if we are live.
WsCheckLive ==
  /\ wsPc = "checkLive"
  /\ wsPc' = IF broadcastState = "Live" THEN "failTakeover" ELSE "leave"
  /\ UNCHANGED <<broadcastState, subVars, subscriptionState, opened, stageLive, reports,
                 fault>>

WsFailTakeover ==
  /\ wsPc = "failTakeover"
  /\ Report("Takeover")
  /\ wsPc' = "leave"
  /\ UNCHANGED <<broadcastState, subVars, subscriptionState, opened, stageLive, fault>>

\* Mutant: GraphQL errors make it subscribe again.
ErrorsResubscribe ==
  /\ wsPc = "idle"
  /\ subscription = "open"
  /\ wsPc' = "resubscribe"
  /\ UNCHANGED <<broadcastState, subVars, subscriptionState, opened, stageLive,
                 reports, fault>>

\* messageHandler with GraphQL errors: reported without looking at any state.
WsGraphqlErrors ==
  /\ wsPc = "idle"
  /\ subscription = "open"
  /\ wsPc' = "failErrors"
  /\ UNCHANGED <<broadcastState, subVars, subscriptionState, opened, stageLive,
                 reports, fault>>

WsFailErrors ==
  /\ wsPc = "failErrors"
  /\ Report("BroadcastFailed")
  /\ wsPc' = "leave"
  /\ UNCHANGED <<broadcastState, subVars, subscriptionState, opened, stageLive, fault>>

\* A handler drops its strong pointer, to return or before it sleeps.  If that
\* was the last one, ~WebsocketClient runs here and joins the thread it runs on.
WsLeave ==
  /\ wsPc \in {"leave", "pause"}
  /\ wsPc' = IF wsPc = "pause" THEN "backoff" ELSE "idle"
  /\ fault' = IF appPc = "released" THEN "selfJoin" ELSE fault
  /\ UNCHANGED <<broadcastState, subVars, subscriptionState, opened, stageLive, reports>>

\* Mutant: only a failed connection is subscribed again.
EndedByCloseIsFinal(endType) ==
  /\ wsPc = "idle"
  /\ subscription \in {"connecting", "open"}
  /\ subscription' = "ended"
  /\ wsPc' = IF WantsSubscription /\ endType = "Failed" THEN "pause" ELSE "leave"
  /\ UNCHANGED <<broadcastState, tryNum, subscriptionState, opened, stageLive, reports,
                 fault>>

\* endedHandler: a closed connection is subscribed again at once, a failed one
\* after a pause in which the Broadcast is not held.
WsEnded(endType) ==
  /\ wsPc = "idle"
  /\ subscription \in {"connecting", "open"}
  /\ subscription' = "ended"
  /\ CASE ~WantsSubscription                      -> wsPc' = "leave" /\ UNCHANGED tryNum
       [] WantsSubscription /\ endType = "Closed" -> wsPc' = "resubscribe" /\ tryNum' = 1
       [] WantsSubscription /\ endType = "Failed" -> wsPc' = "pause" /\ UNCHANGED tryNum
  /\ UNCHANGED <<broadcastState, subscriptionState, opened, stageLive, reports, fault>>

WsBackoffOver ==
  /\ wsPc = "backoff"
  /\ \/ ~alive /\ wsPc' = "idle" /\ UNCHANGED tryNum
     \/ alive /\ ~WantsSubscription /\ wsPc' = "leave" /\ UNCHANGED tryNum
     \/ /\ alive /\ WantsSubscription
        /\ wsPc' = "resubscribe"
        /\ tryNum' = IF tryNum < MaxTry THEN tryNum + 1 ELSE MaxTry
  /\ UNCHANGED <<broadcastState, subscription, subscriptionState, opened, stageLive,
                 reports, fault>>

\* Mutant: the old subscription is dropped and no new one made.
ResubscribeDropsOnly ==
  /\ wsPc = "resubscribe"
  /\ subscription' = "null"
  /\ wsPc' = "connect"
  /\ UNCHANGED <<broadcastState, tryNum, subscriptionState, opened, stageLive, reports,
                 fault>>

WsResubscribe ==
  /\ wsPc = "resubscribe"
  /\ AssignSubscription
  /\ wsPc' = "connect"
  /\ UNCHANGED <<broadcastState, tryNum, subscriptionState, opened, stageLive,
                 reports, fault>>

WsConnect ==
  /\ wsPc = "connect"
  /\ ConnectSubscription
  /\ wsPc' = "leave"
  /\ UNCHANGED <<broadcastState, tryNum, subscriptionState, opened, stageLive, reports>>

Ws ==
  /\ UNCHANGED <<appVars, workerPc, snapPc, failures, alive, server>>
  /\ \/ WsOpened \/ WsReauthenticate \/ WsRefreshThrows
     \/ \E feedIsOnStage, live \in BOOLEAN : WsStageUpdate(feedIsOnStage, live)
     \/ WsCheckOnline \/ WsCheckLive \/ WsFailTakeover
     \/ WsGraphqlErrors \/ WsFailErrors \/ WsLeave
     \/ \E endType \in {"Closed", "Failed"} : WsEnded(endType)
     \/ WsBackoffOver \/ WsResubscribe \/ WsConnect

-----------------------------------------------------------------------------
(* The detached snapshot thread: it holds `this`, not a shared_ptr. *)

\* Two seconds are over: it reads thumbnailFileName_ and asks for a picture.
SnapWake ==
  /\ snapPc = "sleeping"
  /\ IF alive
     THEN snapPc' = "uploading" /\ UNCHANGED fault
     ELSE fault' = "useAfterFree" /\ UNCHANGED snapPc

\* It reads broadcastId_ and sharedCredentials_ and uploads the picture; the
\* requests may throw here too.
SnapUpload ==
  /\ snapPc = "uploading"
  /\ \/ alive /\ snapPc' = "done" /\ UNCHANGED fault
     \/ alive /\ fault' = "uncaughtException" /\ UNCHANGED snapPc
     \/ ~alive /\ fault' = "useAfterFree" /\ UNCHANGED snapPc

Snap ==
  /\ UNCHANGED <<broadcastState, subVars, wsVars, appVars, workerPc, failures, alive,
                 reports, server>>
  /\ SnapWake \/ SnapUpload

-----------------------------------------------------------------------------

Next == fault = "none" /\ (App \/ Worker \/ Ws \/ Snap)

\* Threads the operating system schedules: each that can take a step does so
\* in the end.  The application is not obliged to call stop(), only to finish
\* the stop() it has called, and the servers owe no message.
Fairness ==
  /\ WF_vars(fault = "none" /\ Worker)
  /\ WF_vars(fault = "none" /\ (StopReset \/ StopJoin))
  /\ WF_vars(fault = "none" /\ Ws /\ wsPc # "idle")
  /\ WF_vars(fault = "none" /\ Snap)

Safe == Init /\ [][Next]_vars

Spec == Safe /\ Fairness

-----------------------------------------------------------------------------
(* Properties *)

\* startHeartbeat makes "sure the subscription has opened before going live":
\* in state Live the subscription has delivered and the server has accepted
\* the broadcast, whichever thread looks.
LiveOnlyWhenReady == broadcastState = "Live" => opened /\ stageStarted

\* The two callbacks give one answer to a start: a start reported as timed out
\* never reports that it has started, a disconnection is only reported of a
\* broadcast that was reported started, and both come from a worker that has
\* gone that far.
AnswersAgree ==
  /\ "StageSubscriptionTimeOut" \in reported => ~started /\ workerPc = "done"
  /\ "Disconnected" \in reported =>
       started /\ workerPc \in {"exit", "stopBroadcast", "done"}

\* A worker that has finished leaves a broadcast on the server only when a
\* request went unanswered or it gave up on its heartbeats; every other way
\* out, a stop() overtaking "going live" included, has sent StopBroadcast.
StageLeftLiveOnlyIf ==
  workerPc = "done" /\ stageStarted => lost \/ "Disconnected" \in reported

\* Takeover is reported only of a feed that has been seen on the stage, by a
\* broadcast that had reached Streaming.
TakeoverJustified ==
  "Takeover" \in reported =>
    /\ SeenOnStage(subscriptionState)
    /\ workerPc \notin {"none", "subscribe", "connect", "toStreaming"}

\* ~Broadcast runs only when broadcastThread_ has been joined and no handler
\* of the websocket thread is still using the object.
DestroyedOnlyWhenUnused ==
  ~alive => /\ workerPc \in {"none", "done"}
            /\ wsPc \notin HoldingPcs
            /\ broadcastState = "Offline"

\* As long as stop() has not been called, nothing a thread does can find
\* subscription_ null, the object destroyed, or the websocket thread joining
\* itself: every one of those needs a stop() that overtakes another thread.
FaultsNeedStop ==
  appPc \in {"created", "running"} => fault \in {"none", "emptyOptional", "uncaughtException"}

\* The state after this one on the way to Live.
Following(state) ==
  CASE state = "Offline"   -> "Starting"
    [] state = "Starting"  -> "Streaming"
    [] state = "Streaming" -> "Live"

\* broadcastState_ moves only along Offline, Starting, Streaming, Live, from
\* anywhere to Stopping and from there to Offline: no thread revives a
\* broadcast that is being stopped.
LegalTransitions ==
  [][\/ /\ broadcastState \in {"Offline", "Starting", "Streaming"}
        /\ broadcastState' = Following(broadcastState)
     \/ broadcastState' = "Stopping"
     \/ broadcastState = "Stopping" /\ broadcastState' = "Offline"]_broadcastState

\* Stage updates may come in any order and after any reconnection, but what
\* they have shown is never forgotten: a stage known to have gone live stays
\* so, or its going dark would go unnoticed.
StageProgressKept ==
  [][/\ subscriptionState' # "None"
     /\ SeenOnStage(subscriptionState) => SeenOnStage(subscriptionState')
     /\ subscriptionState # "StageHasGoneLive"]_subscriptionState

\* The log line "Heartbeat failed %d times; ending broadcast.": once stop() has
\* returned and every request was answered, the server holds no broadcast.
StoppedMeansOffAir == appPc = "stopped" /\ ~lost => ~stageStarted

\* A stop() returns: the join in it never waits for ever.
StopReturns == appPc \in {"reset", "join"} ~> appPc = "stopped" \/ fault # "none"

\* A start() is answered, by one callback or the other, unless it is stopped.
StartAnswered ==
  appPc = "running" ~>
    started \/ reported # {} \/ appPc # "running" \/ fault # "none"

\* A subscription whose connection has ended is replaced as long as the
\* broadcast wants one, however often the connection ends.
SubscriptionRetried ==
  subscription = "ended" /\ appPc = "running" ~>
    subscription \in {"fresh", "connecting", "open"} \/ appPc # "running" \/ fault # "none"

\* Where the owner is in the abstract life of the broadcast.
Phase ==
  CASE appPc \in {"created", "running"}             -> appPc
    [] appPc \in {"reset", "join"}                  -> "stopping"
    [] appPc \in {"stopped", "released"} /\ alive   -> "stopped"
    [] appPc \in {"stopped", "released"} /\ ~alive  -> "destroyed"

\* The abstract life of a broadcast, and how the threads' state shows it.
Lifecycle == INSTANCE BroadcastLifecycle WITH
  phase <- Phase,
  onAir <- stageStarted,
  crashed <- fault # "none"

\* The threads together keep the promise BroadcastLifecycle states.
ImplementsLifecycle == Lifecycle!Spec

\* What the owner has called, for BroadcastCallbacks.
Called ==
  CASE appPc = "created"                -> "made"
    [] appPc = "running"                -> "running"
    [] appPc \in {"reset", "join"}      -> "stopping"
    [] appPc \in {"stopped", "released"} -> "null"

\* How far the worker is, as its callbacks show it.
Shown ==
  LET unstarted == Called \in {"made", "null"} \/ workerPc = "none"
      givenUp == workerPc = "done" \/ "Disconnected" \in reported
  IN IF unstarted THEN "none"
     ELSE IF givenUp THEN "over"
     ELSE IF workerPc = "callStarted" THEN "calling"
     ELSE IF started THEN "live" ELSE "starting"

\* A handler of the websocket thread may still be running, and report.
Late == Called = "null" /\ alive /\ workerPc # "none"

\* What the owner and the threads of this broadcast show each other.
Callbacks == INSTANCE BroadcastCallbacks WITH
  broadcast <- Called,
  worker <- Shown,
  late <- Late,
  failed <- reported # {}

\* The callbacks come as the dock takes them to: "started" at most once and
\* not after the worker has failed, and a failure from the worker only before
\* it is joined, from the websocket thread only until it lets go.
ImplementsCallbacks == Callbacks!Spec

\* The stage subscription as its connections show it (StageSubscription).
Slot == INSTANCE SubscriptionSlot

\* The worker and the websocket thread both set the subscription up, and stop()
\* drops it under either: all the same it is replaced only after its end has been
\* reported, and setupSubscription connects only what it has just assigned.
ImplementsSlot == Slot!Spec
=============================================================================
