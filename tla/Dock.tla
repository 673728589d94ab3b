-------------------------------- MODULE Dock --------------------------------
(***************************************************************************)
(* The dock of the plugin (src/src/caffeine-dock-window.cpp), the Instance *)
(* it drives (src/src/instance.cpp) and the OBS event callback             *)
(* (src/src/plugin-main.cpp), over the life of many broadcasts.            *)
(*                                                                         *)
(* Everything the dock does runs on the Qt main thread: a click, or the    *)
(* next of the calls other threads have posted to it.  A broadcast's own   *)
(* threads take the steps of BroadcastCallbacks.tla, which Broadcast.tla   *)
(* implements.  The streaming output of OBS is external: it becomes active *)
(* some time after it was started, and once it ends its stop signal and    *)
(* its becoming inactive come in either order.                             *)
(***************************************************************************)
EXTENDS Naturals, Sequences

CONSTANTS
  MaxQueue,   \* the user waits when this many calls are posted
  MaxSignals  \* OBS is not started with this many stop signals outstanding

ASSUME BoundsAssumption == MaxQueue \in Nat /\ MaxSignals \in Nat

VARIABLES
  signedIn,      \* isSignedIn(): there are credentials and a user
  refused,       \* the last sign-in was answered AlreadyBroadcasting
  signInButton,  \* enabled, and its text
  mfaRow,        \* the one-time password is being asked for
  goLiveButton,  \* visible, enabled, and its text, as the locale names it
  obs,           \* the streaming output
  signals,       \* stop signals it has not raised yet
  queue,         \* calls posted to the main thread
  uiPc,          \* where the main thread stands
  afterJoin,     \* what it does when the join in stop() has returned
  broadcast,     \* Instance::broadcast_
  worker,        \* broadcastThread_ of that broadcast
  late,          \* a handler of a stopped broadcast is still running
  mishaps,       \* what has gone wrong since this broadcast was made
  fault          \* how the process died, "none" while it lives

signIn == <<signedIn, refused, mfaRow>>
buttons == <<signInButton, goLiveButton>>
output == <<obs, signals>>
threads == <<broadcast, worker, late>>
ui == <<uiPc, afterJoin>>

vars == <<signIn, buttons, output, queue, ui, threads, mishaps, fault>>

Posts == {"setStreamingUI", "setOfflineUI", "StopStreaming", "STREAMING_STOPPED"}

Mishaps ==
  {"failed",        \* failedCallback has been called
   "unseenFailure", \* ... when OBS was not active, so the dock did nothing
   "notStarted",    \* startBroadcast returned an error
   "overlooked",    \* OBS became active between onGoLiveBtnClicked's two looks
   "outputDown",    \* OBS did not start, or its stop ended the broadcast
   "clickedOver"}   \* Go Live was clicked over a running broadcast

SignInButtons == [enabled : BOOLEAN, text : {"SignIn", "SignOut", "Continue"}]

GoLiveButtons ==
  [visible : BOOLEAN, enabled : BOOLEAN, text : {"GoLive", "Starting", "EndShow"}]

FlagsOK ==
  /\ signedIn \in BOOLEAN
  /\ refused \in BOOLEAN
  /\ mfaRow \in BOOLEAN
  /\ late \in BOOLEAN

PlacesOK ==
  /\ obs \in {"idle", "connecting", "active", "stopping"}
  /\ signals \in 0..MaxSignals
  /\ queue \in Seq(Posts)
  /\ uiPc \in {"loop", "check", "start", "join", "gone"}
  /\ afterJoin \in {"loop", "offline", "quit"}
  /\ broadcast \in {"null", "made", "running", "stopping"}
  /\ worker \in {"none", "starting", "calling", "live", "over"}
  /\ mishaps \subseteq Mishaps
  /\ fault \in {"none", "joinableThread", "noConnection", "credentialsGone", "dockGone"}
  \* a broadcast has a worker from its start until it is given up
  /\ broadcast \in {"null", "made"} => worker = "none"
  /\ broadcast = "running" => worker # "none"

TypeOK ==
  /\ FlagsOK
  /\ signInButton \in SignInButtons
  /\ goLiveButton \in GoLiveButtons
  /\ PlacesOK

\* The settings file is missing, or names nobody, or names a user whose
\* refresh token is accepted or not: its result is not looked at.
Init ==
  /\ \/ /\ signInButton = [enabled |-> TRUE, text |-> "SignIn"]
        /\ goLiveButton \in [visible : BOOLEAN, enabled : BOOLEAN, text : {"GoLive"}]
        /\ goLiveButton.visible = goLiveButton.enabled
        /\ signedIn = FALSE
     \/ /\ signInButton = [enabled |-> TRUE, text |-> "SignOut"]
        /\ goLiveButton = [visible |-> TRUE, enabled |-> TRUE, text |-> "GoLive"]
        /\ signedIn \in BOOLEAN
  /\ refused = FALSE
  /\ mfaRow = FALSE
  /\ obs = "idle"
  /\ signals = 0
  /\ queue = <<>>
  /\ uiPc = "loop"
  /\ afterJoin = "loop"
  /\ broadcast = "null"
  /\ worker = "none"
  /\ late = FALSE
  /\ mishaps = {}
  /\ fault = "none"

-----------------------------------------------------------------------------
(* Helpers *)

\* The threads of the broadcasts, as the dock meets them.
Callbacks == INSTANCE BroadcastCallbacks WITH failed <- "failed" \in mishaps

\* obs_frontend_streaming_active()
StreamingActive == obs \in {"active", "stopping"}

\* obs_frontend_streaming_stop() on the main thread.
StopOutput ==
  IF obs = "active"
  THEN obs' = "stopping" /\ signals' = signals + 1
  ELSE UNCHANGED output

\* obs_frontend_streaming_start(): it may fail, and an output that is not idle
\* is left alone.
StartOutput ==
  /\ UNCHANGED signals
  /\ IF obs = "idle" /\ signals < MaxSignals THEN obs' \in {"idle", "connecting"}
     ELSE UNCHANGED obs

Posted(call) == \E i \in DOMAIN queue : queue[i] = call

\* A click that the main loop gets to.
Clickable == uiPc = "loop" /\ Len(queue) <= MaxQueue

\* Mutant: the button is left disabled.
OfflineUIOnlyText ==
  /\ signInButton' = [signInButton EXCEPT !.enabled = TRUE]
  /\ goLiveButton' = [goLiveButton EXCEPT !.text = "GoLive"]

SetOfflineUI ==
  /\ signInButton' = [signInButton EXCEPT !.enabled = TRUE]
  /\ goLiveButton' = [goLiveButton EXCEPT !.enabled = TRUE, !.text = "GoLive"]

\* Mutant: signing out stays possible.
StreamingUIKeepsSignOut ==
  /\ signInButton' = [signInButton EXCEPT !.enabled = TRUE]
  /\ goLiveButton' = [goLiveButton EXCEPT !.enabled = TRUE, !.text = "EndShow"]

SetStreamingUI ==
  /\ signInButton' = [signInButton EXCEPT !.enabled = FALSE]
  /\ goLiveButton' = [goLiveButton EXCEPT !.enabled = TRUE, !.text = "EndShow"]

SetupSignedInUI ==
  /\ signInButton' = [enabled |-> TRUE, text |-> "SignOut"]
  /\ goLiveButton' = [goLiveButton EXCEPT !.visible = TRUE, !.enabled = TRUE]
  /\ mfaRow' = FALSE

SetupSignedOutUI ==
  /\ signInButton' = [enabled |-> TRUE, text |-> "SignIn"]
  /\ goLiveButton' = [goLiveButton EXCEPT !.visible = FALSE, !.enabled = FALSE]
  /\ mfaRow' = FALSE

\* Instance::endBroadcast: stop() announces itself and joins the worker.
EndBroadcast(continuation) ==
  /\ broadcast' = "stopping"
  /\ uiPc' = "join"
  /\ afterJoin' = continuation
  /\ UNCHANGED <<worker, late>>

-----------------------------------------------------------------------------
(* Signing in and out *)

\* onSignInClicked when signed in, or when the button says so: the credentials
\* go, and with them what a running broadcast refers to.
Logout ==
  /\ Clickable
  /\ signInButton.enabled
  /\ signedIn \/ signInButton.text = "SignOut"
  /\ signedIn' = FALSE
  /\ SetupSignedOutUI
  /\ fault' = IF signedIn /\ broadcast = "running" THEN "credentialsGone" ELSE fault
  /\ UNCHANGED <<refused, output, queue, ui, threads, mishaps>>

\* What is clicked to log in: the button, or the link and the button that have
\* the code sent again.
CanLogIn ==
  \/ signInButton.enabled /\ ~signedIn /\ signInButton.text # "SignOut"
  \/ signInButton.text = "SignIn"
  \/ mfaRow

\* login() and Instance::authenticate, which refuses while there is a broadcast_.
LoginRefused ==
  /\ Clickable
  /\ CanLogIn
  /\ broadcast # "null"
  /\ refused' = TRUE
  /\ mfaRow' = FALSE
  /\ UNCHANGED <<signedIn, buttons, output, queue, ui, threads, mishaps, fault>>

LoginSucceeds ==
  /\ Clickable
  /\ CanLogIn
  /\ broadcast = "null"
  /\ refused' = FALSE
  /\ signedIn' = TRUE
  /\ SetupSignedInUI
  /\ UNCHANGED <<output, queue, ui, threads, mishaps, fault>>

\* The other answers: nothing but a message, start again, or a one-time
\* password to be typed, correctly this time.
LoginFails ==
  /\ Clickable
  /\ CanLogIn
  /\ broadcast = "null"
  /\ refused' = FALSE
  /\ \/ mfaRow' = FALSE /\ UNCHANGED buttons
     \/ SetupSignedOutUI
     \/ /\ mfaRow' = TRUE
        /\ signInButton' = [enabled |-> FALSE, text |-> "Continue"]
        /\ UNCHANGED goLiveButton
     \/ /\ mfaRow' = TRUE
        /\ signInButton' = [signInButton EXCEPT !.enabled = FALSE]
        /\ UNCHANGED goLiveButton
  /\ UNCHANGED <<signedIn, output, queue, ui, threads, mishaps, fault>>

\* The sign-in button follows the length of the password typed.
TypeOtp ==
  /\ Clickable
  /\ mfaRow
  /\ signInButton' = [signInButton EXCEPT !.enabled = ~signInButton.enabled]
  /\ UNCHANGED <<signIn, goLiveButton, output, queue, ui, threads, mishaps, fault>>

-----------------------------------------------------------------------------
(* Going live *)

\* onGoLiveBtnClicked, up to the first look at the output.
ClickGoLive ==
  /\ Clickable
  /\ goLiveButton.visible
  /\ goLiveButton.enabled
  /\ UNCHANGED <<signIn, queue, fault>>
  /\ \/ \* OBS is streaming: end the show
        /\ StreamingActive
        /\ StopOutput
        /\ UNCHANGED mishaps
        /\ IF broadcast # "null"
           THEN /\ EndBroadcast("offline")
                /\ signInButton' = [signInButton EXCEPT !.enabled = FALSE]
                /\ goLiveButton' = [goLiveButton EXCEPT !.enabled = FALSE, !.text = "Starting"]
           ELSE SetOfflineUI /\ UNCHANGED <<ui, threads>>
     \/ \* OBS is not: start one
        /\ ~StreamingActive
        /\ signInButton' = [signInButton EXCEPT !.enabled = FALSE]
        /\ goLiveButton' = [goLiveButton EXCEPT !.enabled = FALSE, !.text = "Starting"]
        /\ mishaps' = IF broadcast = "running" THEN mishaps \cup {"clickedOver"} ELSE mishaps
        /\ uiPc' = "check"
        /\ UNCHANGED <<output, afterJoin, threads>>

\* The second look finds OBS active after all, and nothing follows.
Overlook ==
  /\ uiPc = "check"
  /\ StreamingActive
  /\ mishaps' = mishaps \cup {"overlooked"}
  /\ uiPc' = "loop"
  /\ UNCHANGED <<signIn, buttons, output, queue, afterJoin, threads, fault>>

\* Another service, a version too old, or nobody signed in.
CannotFeed ==
  /\ uiPc = "check"
  /\ ~StreamingActive
  /\ SetOfflineUI
  /\ uiPc' = "loop"
  /\ UNCHANGED <<signIn, output, queue, afterJoin, threads, mishaps, fault>>

\* Mutant: a Broadcast that is there already is used again.
FeedUsesOldBroadcast ==
  /\ uiPc = "check"
  /\ ~StreamingActive
  /\ signedIn
  /\ broadcast' = IF broadcast = "null" THEN "made" ELSE broadcast
  /\ mishaps' = {}
  /\ uiPc' = "start"
  /\ UNCHANGED <<signIn, buttons, fault, output, queue, afterJoin, worker, late>>

\* Instance::createSrtFeed: a new Broadcast in the place of the old one, whose
\* destructor ends the process if its thread was never joined.  The server may
\* still refuse the feed, or accept it without the connection that is read.
CreateSrtFeed ==
  /\ uiPc = "check"
  /\ ~StreamingActive
  /\ signedIn
  /\ IF broadcast = "running"
     THEN fault' = "joinableThread" /\ UNCHANGED <<signIn, buttons, ui, broadcast, mishaps>>
     ELSE /\ broadcast' = "made"
          /\ mishaps' = IF Posted("setOfflineUI") THEN {"failed"} ELSE {}
          /\ \/ uiPc' = "start" /\ UNCHANGED <<buttons, fault>>
             \/ uiPc' = "loop" /\ SetOfflineUI /\ UNCHANGED fault
             \/ fault' = "noConnection" /\ UNCHANGED <<buttons, uiPc>>
          /\ UNCHANGED <<signIn, afterJoin>>
  /\ UNCHANGED <<output, queue, worker, late>>

\* The output is started, and with it the broadcast unless the user may not
\* broadcast; the dock looks at neither result.
StartShow ==
  /\ uiPc = "start"
  /\ StartOutput
  /\ \/ /\ broadcast' = "running"
        /\ worker' = "starting"
        /\ mishaps' = IF obs' = "idle" THEN mishaps \cup {"outputDown"} ELSE mishaps
     \/ mishaps' = mishaps \cup {"notStarted"} /\ UNCHANGED <<broadcast, worker>>
  /\ uiPc' = "loop"
  /\ UNCHANGED <<signIn, buttons, queue, afterJoin, late, fault>>

-----------------------------------------------------------------------------
(* stop() returns to endBroadcast's caller *)

\* The worker is done; a handler of the websocket thread may still be running.
Join ==
  /\ uiPc = "join"
  /\ UNCHANGED mishaps
  /\ Callbacks!StopReturns
  /\ \/ afterJoin = "loop" /\ uiPc' = "loop" /\ UNCHANGED <<buttons, output>>
     \/ afterJoin = "offline" /\ uiPc' = "loop" /\ SetOfflineUI /\ UNCHANGED output
     \/ afterJoin = "quit" /\ uiPc' = "gone" /\ StopOutput /\ UNCHANGED buttons
  /\ UNCHANGED <<signIn, queue, afterJoin, fault>>

-----------------------------------------------------------------------------
(* Calls posted to the main thread, in order *)

\* Mutant: the stop of the output does not end the broadcast.
StoppedIgnored ==
  /\ UNCHANGED <<buttons, output, ui, threads, mishaps>>

\* STREAMING_STOPPED ends whatever broadcast there is, and leaves the dock as
\* it is.
StopCaffeineStream ==
  /\ IF broadcast = "null" THEN UNCHANGED <<ui, threads>> ELSE EndBroadcast("loop")
  /\ mishaps' = IF broadcast = "null" THEN mishaps ELSE mishaps \cup {"outputDown"}
  /\ UNCHANGED <<buttons, output>>

HandlePost ==
  /\ uiPc = "loop"
  /\ queue # <<>>
  /\ queue' = Tail(queue)
  /\ \/ Head(queue) = "setStreamingUI" /\ SetStreamingUI /\ UNCHANGED <<output, ui, threads, mishaps>>
     \/ Head(queue) = "setOfflineUI" /\ SetOfflineUI /\ UNCHANGED <<output, ui, threads, mishaps>>
     \/ Head(queue) = "StopStreaming" /\ StopOutput /\ UNCHANGED <<buttons, ui, threads, mishaps>>
     \/ Head(queue) = "STREAMING_STOPPED" /\ StopCaffeineStream
  /\ UNCHANGED <<signIn, fault>>

\* ~CaffeineDockWindow ends the broadcast only if OBS is streaming.
Quit ==
  /\ Clickable
  /\ IF StreamingActive /\ broadcast # "null"
     THEN EndBroadcast("quit") /\ UNCHANGED output
     ELSE /\ uiPc' = "gone"
          /\ StopOutput
          /\ UNCHANGED <<afterJoin, threads>>
  /\ UNCHANGED <<signIn, buttons, queue, mishaps, fault>>

-----------------------------------------------------------------------------
(* The broadcast's threads call back *)

\* streamFailed: when OBS is active it is stopped and the dock is offline, and
\* else there is only an error dialog.
StreamFailed ==
  IF uiPc = "gone"
  THEN fault' = "dockGone" /\ mishaps' = mishaps \cup {"failed"} /\ UNCHANGED queue
  ELSE /\ queue' = IF StreamingActive THEN queue \o <<"StopStreaming", "setOfflineUI">> ELSE queue
       /\ mishaps' = mishaps \cup (IF StreamingActive THEN {"failed"} ELSE {"failed", "unseenFailure"})
       /\ UNCHANGED fault

\* Mutant: the callback waits for the mutex that endBroadcast holds.
StreamStartedLocks ==
  /\ uiPc # "join"
  /\ UNCHANGED mishaps
  /\ Callbacks!CallStarted
  /\ IF uiPc = "gone"
     THEN fault' = "dockGone" /\ UNCHANGED queue
     ELSE queue' = Append(queue, "setStreamingUI") /\ UNCHANGED fault

\* startedCallback is streamStarted.
StreamStarted ==
  /\ UNCHANGED mishaps
  /\ Callbacks!CallStarted
  /\ IF uiPc = "gone"
     THEN fault' = "dockGone" /\ UNCHANGED queue
     ELSE queue' = Append(queue, "setStreamingUI") /\ UNCHANGED fault

\* failedCallback is streamFailed, whichever thread calls it; the websocket
\* thread may do so any number of times.
WorkerFails == StreamFailed /\ Callbacks!WorkerFails

SubscriptionFails ==
  /\ Len(queue) < MaxQueue
  /\ StreamFailed
  /\ Callbacks!SubscriptionFails \/ Callbacks!LateFailure

\* The steps of the threads that call nobody back.
Silent ==
  /\ UNCHANGED <<queue, mishaps, fault>>
  /\ Callbacks!WorkerGoesLive \/ Callbacks!WorkerStops \/ Callbacks!LateEnds

Threads ==
  /\ UNCHANGED <<signIn, buttons, output, ui>>
  /\ StreamStarted \/ WorkerFails \/ SubscriptionFails \/ Silent

-----------------------------------------------------------------------------
(* OBS *)

\* Its own Start Streaming button.
ObsStarts ==
  /\ Clickable
  /\ obs = "idle"
  /\ signals < MaxSignals
  /\ obs' = "connecting"
  /\ UNCHANGED <<signals, queue>>

ObsConnects ==
  /\ obs = "connecting"
  /\ obs' = "active"
  /\ UNCHANGED <<signals, queue>>

\* The output cannot connect, loses its connection, or is stopped in OBS.
ObsEnds ==
  /\ obs \in {"connecting", "active"}
  /\ obs' = IF obs = "active" THEN "stopping" ELSE "idle"
  /\ signals' = signals + 1
  /\ UNCHANGED queue

ObsInactive ==
  /\ obs = "stopping"
  /\ obs' = "idle"
  /\ UNCHANGED <<signals, queue>>

ObsSignals ==
  /\ signals > 0
  /\ signals' = signals - 1
  /\ queue' = Append(queue, "STREAMING_STOPPED")
  /\ UNCHANGED obs

Obs ==
  /\ UNCHANGED <<signIn, buttons, ui, threads, mishaps, fault>>
  /\ ObsStarts \/ ObsConnects \/ ObsEnds \/ ObsInactive \/ ObsSignals

-----------------------------------------------------------------------------

Click ==
  \/ Logout \/ LoginRefused \/ LoginSucceeds \/ LoginFails \/ TypeOtp
  \/ ClickGoLive \/ Quit

Handler == Overlook \/ CannotFeed \/ CreateSrtFeed \/ StartShow \/ Join \/ HandlePost

Next == fault = "none" /\ (Click \/ Handler \/ Threads \/ Obs)

\* A handler goes on to its end, and every turn of the main loop delivers what
\* is posted, however often the user clicks.  A broadcast's threads do what
\* Broadcast.tla shows of them, and OBS comes to an end with what it has begun.
\* Nobody has to click, no subscription has to fail, and an active output may
\* stay so.
Fairness ==
  /\ WF_vars(fault = "none" /\ Handler /\ uiPc # "loop")
  /\ SF_vars(fault = "none" /\ HandlePost)
  /\ WF_vars(/\ fault = "none"
             /\ worker \in {"starting", "calling"} \/ broadcast = "stopping"
             /\ Threads /\ worker' # worker)
  /\ WF_vars(fault = "none" /\ Obs /\ obs \in {"connecting", "stopping"} /\ obs' # obs)
  /\ WF_vars(fault = "none" /\ Obs /\ signals' < signals)

Safe == Init /\ [][Next]_vars

Spec == Safe /\ Fairness

-----------------------------------------------------------------------------
(* Properties *)

\* A broadcast that has reported "started" and no failure since shows it: its
\* show can be ended, and nobody can sign out under it, unless the user has
\* clicked Go Live over it.
LiveMeansEndShow ==
  LET reportedLive == /\ broadcast = "running"
                      /\ worker = "live"
                      /\ ~Posted("setStreamingUI")
                      /\ uiPc # "gone"
                      /\ mishaps \cap {"failed", "clickedOver"} = {}
  IN reportedLive =>
       /\ goLiveButton = [visible |-> TRUE, enabled |-> TRUE, text |-> "EndShow"]
       /\ ~signInButton.enabled

\* Signing out destroys the credentials of a running broadcast only when a
\* failure, or a click over that broadcast, has made the dock think it offline.
CredentialsGoneOnlyIf ==
  fault = "credentialsGone" => mishaps \cap {"failed", "clickedOver"} # {}

\* A broadcast runs that OBS is not streaming only if it has failed, or its
\* output did not start, is still connecting, or has ended and the dock has not
\* been told yet.  These are the broadcasts that a click on "END SHOW" starts
\* another one over, which ends the process, and that ~CaffeineDockWindow leaves
\* running, to call back a dock that is gone.
UnstreamedOnlyIf ==
  broadcast = "running" /\ ~StreamingActive =>
    \/ mishaps \cap {"failed", "outputDown"} # {}
    \/ obs = "connecting"
    \/ signals > 0
    \/ Posted("STREAMING_STOPPED")

\* The dock and OBS keep the owner's side of what Broadcast.tla relies on, in
\* whatever order clicks and signals come: a Broadcast is started at most once
\* and before it is stopped, stopped at most once, and given up only when that
\* stop() has returned or when it was never started.
UsesBroadcastRightly == Callbacks!Spec

\* The main thread always comes back from the join in stop(): no callback the
\* joined thread makes waits for the main thread or for a lock it holds.
UiReturns == uiPc = "join" ~> uiPc # "join" \/ fault # "none"

\* A stop signal of OBS ends the broadcast there is.
StopSignalEndsBroadcast ==
  Posted("STREAMING_STOPPED") /\ broadcast # "null" ~>
    broadcast = "null" \/ uiPc = "gone" \/ fault # "none"

Unanswered == {"unseenFailure", "notStarted", "overlooked", "outputDown"}

\* "Disable the Button until it finishes the process": the button that was
\* disabled to go live or to end the show is enabled again, as long as nothing
\* happens that the dock has no handler for.
ButtonComesBack ==
  ~goLiveButton.enabled ~>
    \/ goLiveButton.enabled \/ ~goLiveButton.visible
    \/ mishaps \cap Unanswered # {} \/ uiPc = "gone" \/ fault # "none"

\* The same comment taken at its word: the button always comes back.
ButtonAlwaysComesBack ==
  ~goLiveButton.enabled ~>
    goLiveButton.enabled \/ ~goLiveButton.visible \/ uiPc = "gone" \/ fault # "none"

\* "Disable sign out button when streaming": nobody signs out under a running
\* broadcast.
NoSignOutWhenStreaming == fault # "credentialsGone"

\* AlreadyBroadcasting, "A broadcast is already online": a sign-in is not
\* refused for a broadcast that was never started.
AlreadyMeansOnline == refused => broadcast # "made"
=============================================================================
