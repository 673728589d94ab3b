---------------------------- MODULE StageUpdate ----------------------------
(***************************************************************************)
(* What the viewers of a show are told of it: its title, content rating    *)
(* and thumbnail.  They start as what the form of the dock holds when Go   *)
(* Live is clicked, and are changed by the dock's Update button            *)
(* (src/src/caffeine-dock-window.cpp) through the setters of Broadcast     *)
(* (src/src/broadcast.cpp).                                                *)
(*                                                                         *)
(* Three threads send them: the worker, which starts the broadcast with    *)
(* its title and calls streamStarted; the main thread, which the Update    *)
(* button blocks until its requests are answered; and the snapshot thread, *)
(* which uploads the first thumbnail two seconds after going live.         *)
(***************************************************************************)
EXTENDS Naturals

CONSTANT MaxValue  \* what can be typed or chosen is one of 1..MaxValue

ASSUME MaxValueAssumption == MaxValue \in Nat \ {0}

VARIABLES
  state,     \* broadcastState_: Streaming stands for all before Live
  form,      \* what the widgets show; of the thumbnail, the preview
  fileName,  \* thumbnailFilename_, what the dock gives the Broadcast
  parted,    \* history: the preview shows another picture than was given
  local,     \* title_, contentRating_, thumbnailFileName_ of the Broadcast
  server,    \* what the server shows
  infoGroup, \* infoGroupBox is enabled: the form can be edited
  button,    \* updateButton is visible
  update,    \* the setter the worker or the main thread is in
  start,     \* how far the worker is
  posted,    \* setStreamingUI is posted to the main thread
  snapshot,  \* what the snapshot thread does, and the file it uploads
  mishaps    \* what has gone wrong with each of the three

inForm == <<form, fileName, parted>>

vars == <<state, inForm, local, server, infoGroup, button, update, start, posted, snapshot, mishaps>>

Fields == {"title", "rating", "thumbnail"}

Threads == {"main", "worker"}

\* 0: no title yet, ContentRating::Unknown, no thumbnail: no file named, an
\* empty preview, or a screenshot at the server.
Values == 0..MaxValue

Update == [pc : {"idle", "set", "check", "send", "sent", "returned"},
           field : Fields,
           value : Values,     \* the argument of the setter
           payload : Values,   \* what its request says
           result : {"ok", "failed"}]  \* failed: a setter has returned false

Idle == [pc |-> "idle", field |-> "title", value |-> 0, payload |-> 0, result |-> "ok"]

TypeOK ==
  /\ state \in {"Streaming", "Live", "Stopping"}
  /\ form \in [Fields -> Values] /\ form["title"] # 0 /\ form["rating"] # 0
  /\ fileName \in Values
  /\ parted \in BOOLEAN
  /\ local \in [Fields -> Values]
  /\ server \in [Fields -> Values]
  /\ infoGroup \in BOOLEAN
  /\ button \in BOOLEAN
  /\ update \in [Threads -> Update]
  /\ start \in {"awaiting", "sent", "accepted", "started", "done", "over"}
  /\ posted \in BOOLEAN
  /\ snapshot \in [pc : {"none", "sleeping", "sent", "done"}, file : Values]
  /\ mishaps \in [Fields -> SUBSET {"failed", "crossed", "missing"}]
  \* the worker sets nothing but within streamStarted
  /\ update["worker"].pc # "idle" <=> start = "started"

\* onGoLiveBtnClicked has disabled the form and created the Broadcast with the
\* title in it; the Update button may be left over from an earlier show.  So may
\* a preview without a file (a choice refused as too large) and a file without a
\* preview (signing out clears only the widgets).
Init ==
  /\ state = "Streaming"
  /\ \E preview \in {0, 1} : form = [title |-> 1, rating |-> 1, thumbnail |-> preview]
  /\ fileName \in {0, 1}
  /\ parted = (form["thumbnail"] # fileName)
  /\ local = [title |-> form["title"], rating |-> 0, thumbnail |-> 0]
  /\ server = [f \in Fields |-> 0]
  /\ infoGroup = FALSE
  /\ button \in BOOLEAN
  /\ update = [t \in Threads |-> Idle]
  /\ start = "awaiting"
  /\ posted = FALSE
  /\ snapshot = [pc |-> "none", file |-> 0]
  /\ mishaps = [f \in Fields |-> {}]

-----------------------------------------------------------------------------
(* One setter: setTitle, setContentRating or setThumbnailImage *)

\* What the dock gives a setter.
Given(field) == IF field = "thumbnail" THEN fileName ELSE form[field]

Begin(t, field) ==
  [update EXCEPT ![t].pc = "set", ![t].field = field, ![t].value = Given(field)]

Returns(t, ok) ==
  update' = [update EXCEPT ![t].pc = "returned", ![t].value = 0, ![t].payload = 0,
                           ![t].result = IF ok THEN @ ELSE "failed"]

\* The value is compared and assigned under the lock; Instance skips an empty
\* thumbnail.
Assign(t) ==
  LET u == update[t] IN
  /\ u.pc = "set"
  /\ IF u.value \in {local[u.field], 0}
     THEN Returns(t, TRUE) /\ UNCHANGED local
     ELSE /\ local' = [local EXCEPT ![u.field] = u.value]
          /\ update' = [update EXCEPT ![t].pc = "check"]
  /\ UNCHANGED <<state, inForm, server, infoGroup, button, start, posted, snapshot, mishaps>>

\* A broadcast that is not Live sends nothing.
CheckLive(t) ==
  /\ update[t].pc = "check"
  /\ IF state = "Live" THEN update' = [update EXCEPT ![t].pc = "send"] ELSE Returns(t, TRUE)
  /\ UNCHANGED <<state, inForm, local, server, infoGroup, button, start, posted, snapshot, mishaps>>

\* fullTitle() and contentRating_ are read again, the file is the argument.
Send(t) ==
  LET u == update[t] IN
  /\ u.pc = "send"
  /\ update' = [update EXCEPT ![t].pc = "sent",
                              ![t].payload = IF u.field = "thumbnail" THEN u.value ELSE local[u.field]]
  /\ UNCHANGED <<state, inForm, local, server, infoGroup, button, start, posted, snapshot, mishaps>>

\* Mutant: an error the server answers counts as sent.
ReplyIgnored(t) ==
  LET u == update[t] IN
  /\ u.pc = "sent"
  /\ server' \in {server, [server EXCEPT ![u.field] = u.payload]}
  /\ Returns(t, TRUE)
  /\ UNCHANGED <<state, inForm, local, infoGroup, button, start, posted, snapshot, mishaps>>

\* The server has shown it or not; without an answer the setter is false.
Reply(t) ==
  LET u == update[t] IN
  /\ u.pc = "sent"
  /\ \/ /\ server' = [server EXCEPT ![u.field] = u.payload]
        /\ Returns(t, TRUE)
        /\ mishaps' = IF u.field = "thumbnail" /\ snapshot.pc = "sent"
                      THEN [mishaps EXCEPT !["thumbnail"] = @ \cup {"crossed"}] ELSE mishaps
     \/ /\ server' \in {server, [server EXCEPT ![u.field] = u.payload]}
        /\ Returns(t, FALSE)
        /\ mishaps' = [mishaps EXCEPT ![u.field] = @ \cup {"failed"}]
  /\ UNCHANGED <<state, inForm, local, infoGroup, button, start, posted, snapshot>>

Setter(t) == Assign(t) \/ CheckLive(t) \/ Send(t) \/ Reply(t)

-----------------------------------------------------------------------------
(* The worker, from the StartBroadcast request to the end of streamStarted *)

SendStart ==
  /\ start = "awaiting"
  /\ start' = "sent"
  /\ update' = [update EXCEPT !["worker"].payload = local["title"]]
  /\ UNCHANGED <<state, inForm, local, server, infoGroup, button, posted, snapshot, mishaps>>

StartAnswered ==
  /\ start = "sent"
  /\ \/ start' = "accepted" /\ server' = [server EXCEPT !["title"] = update["worker"].payload]
     \/ start' = "over" /\ UNCHANGED server
  /\ update' = [update EXCEPT !["worker"] = Idle]
  /\ UNCHANGED <<state, inForm, local, infoGroup, button, posted, snapshot, mishaps>>

\* Mutant: streamStarted leaves the rating out.
StartedWithoutRating ==
  /\ start = "accepted"
  /\ IF state = "Streaming"
     THEN state' = "Live" /\ start' = "started" /\ update' = Begin("worker", "thumbnail")
     ELSE start' = "over" /\ UNCHANGED <<state, update>>
  /\ UNCHANGED <<inForm, local, server, infoGroup, button, posted, snapshot, mishaps>>

\* Going live, unless stop() was faster; the rating is read from the form.
GoLive ==
  /\ start = "accepted"
  /\ IF state = "Streaming"
     THEN state' = "Live" /\ start' = "started" /\ update' = Begin("worker", "rating")
     ELSE start' = "over" /\ UNCHANGED <<state, update>>
  /\ UNCHANGED <<inForm, local, server, infoGroup, button, posted, snapshot, mishaps>>

\* Mutant: the dock is told before the thumbnail is set.
StartedTooEarly ==
  /\ update["worker"].pc = "returned"
  /\ IF update["worker"].field = "rating"
     THEN /\ update' = Begin("worker", "thumbnail")
          /\ start' = "done"
          /\ posted' = TRUE
          /\ snapshot' = [snapshot EXCEPT !.pc = "sleeping"]
     ELSE update' = [update EXCEPT !["worker"] = Idle] /\ UNCHANGED <<start, posted, snapshot>>
  /\ UNCHANGED <<state, inForm, local, server, infoGroup, button, mishaps>>

\* streamStarted sets the rating, then the thumbnail, looks at neither result,
\* and posts setStreamingUI; then the snapshot thread is started.
StreamStarted ==
  /\ update["worker"].pc = "returned"
  /\ IF update["worker"].field = "rating"
     THEN update' = Begin("worker", "thumbnail") /\ UNCHANGED <<start, posted, snapshot>>
     ELSE /\ update' = [update EXCEPT !["worker"] = Idle]
          /\ start' = "done"
          /\ posted' = TRUE
          /\ snapshot' = [snapshot EXCEPT !.pc = "sleeping"]
  /\ UNCHANGED <<state, inForm, local, server, infoGroup, button, mishaps>>

-----------------------------------------------------------------------------
(* The snapshot thread *)

\* The main thread is about to assign the name of a thumbnail.
AssignsThumbnail ==
  LET u == update["main"] IN
  u.pc = "set" /\ u.field = "thumbnail" /\ u.value \notin {local["thumbnail"], 0}

\* The file name is read without the lock: while it is assigned, the old name,
\* the new one, or none that exists is found.  A screenshot takes the place of
\* a file that has been removed since it was chosen.
SnapshotSends ==
  /\ snapshot.pc = "sleeping"
  /\ \/ /\ \E file \in {local["thumbnail"]}
                    \cup (IF AssignsThumbnail THEN {0, update["main"].value} ELSE {}) :
            snapshot' = [pc |-> "sent", file |-> file]
        /\ UNCHANGED mishaps
     \/ /\ local["thumbnail"] # 0
        /\ snapshot' = [pc |-> "sent", file |-> 0]
        /\ mishaps' = [mishaps EXCEPT !["thumbnail"] = @ \cup {"missing"}]
  /\ UNCHANGED <<state, inForm, local, server, infoGroup, button, update, start, posted>>

\* What it uploads may come after, and over, what the main thread has sent.
SnapshotAnswered ==
  /\ snapshot.pc = "sent"
  /\ snapshot' = [snapshot EXCEPT !.pc = "done"]
  /\ \/ server' = [server EXCEPT !["thumbnail"] = snapshot.file] /\ UNCHANGED mishaps
     \/ mishaps' = [mishaps EXCEPT !["thumbnail"] = @ \cup {"failed"}] /\ UNCHANGED server
  /\ UNCHANGED <<state, inForm, local, infoGroup, button, update, start, posted>>

-----------------------------------------------------------------------------
(* The main thread *)

MainIdle == update["main"].pc = "idle"

\* broadcastTitleTextChanged, onContentRatingChanged
EditForm(field, value) ==
  /\ MainIdle
  /\ infoGroup
  /\ value # form[field]
  /\ form' = [form EXCEPT ![field] = value]
  /\ button' = TRUE
  /\ UNCHANGED <<state, fileName, parted, local, server, infoGroup, update, start, posted, snapshot, mishaps>>

\* onChooseThumnbnailBtnClicked: the preview shows the file that is named, maybe
\* the same as before, or nothing if it holds no picture.
ChooseThumbnail(value) ==
  /\ MainIdle
  /\ infoGroup
  /\ fileName' = value
  /\ \E preview \in {value, 0} :
       form' = [form EXCEPT !["thumbnail"] = preview] /\ parted' = (preview # value)
  /\ button' = TRUE
  /\ UNCHANGED <<state, local, server, infoGroup, update, start, posted, snapshot, mishaps>>

\* Mutant: the preview shows the file before its size is looked at.
ChooseShownFirst ==
  /\ MainIdle
  /\ infoGroup
  /\ fileName' = 0
  /\ \E value \in Values \ {0} : form' = [form EXCEPT !["thumbnail"] = value]
  /\ parted' = (parted \/ fileName \notin {0, local["thumbnail"]})
  /\ UNCHANGED <<state, local, server, infoGroup, button, update, start, posted, snapshot, mishaps>>

\* A file of more than 2 MB: the name is emptied, which no setter passes on, and
\* the preview and the Update button are left as they are.  If the file named
\* before has not been sent yet, it never will be.
ChooseTooLarge ==
  /\ MainIdle
  /\ infoGroup
  /\ fileName' = 0
  /\ parted' = (parted \/ fileName \notin {0, local["thumbnail"]})
  /\ UNCHANGED <<state, form, local, server, infoGroup, button, update, start, posted, snapshot, mishaps>>

\* It enables the form; of a show that is over, to no effect here.
SetStreamingUI ==
  /\ MainIdle
  /\ posted
  /\ posted' = FALSE
  /\ infoGroup' = (state # "Stopping")
  /\ UNCHANGED <<state, inForm, local, server, button, update, start, snapshot, mishaps>>

ClickUpdate ==
  /\ MainIdle
  /\ infoGroup
  /\ button
  /\ update' = Begin("main", "title")
  /\ UNCHANGED <<state, inForm, local, server, infoGroup, button, start, posted, snapshot, mishaps>>

\* onUpdateButtonClicked calls all three setters, and hides the button if each
\* of them has returned true.
UpdateGoesOn ==
  /\ update["main"].pc = "returned"
  /\ CASE update["main"].field = "title"     -> update' = Begin("main", "rating") /\ UNCHANGED button
       [] update["main"].field = "rating"    -> update' = Begin("main", "thumbnail") /\ UNCHANGED button
       [] update["main"].field = "thumbnail" ->
            /\ update' = [update EXCEPT !["main"] = Idle]
            /\ button' = (button /\ update["main"].result = "failed")
  /\ UNCHANGED <<state, inForm, local, server, infoGroup, start, posted, snapshot, mishaps>>

\* The show is ended or the dock is set offline: nothing is updated any more.
Stop ==
  /\ MainIdle
  /\ state # "Stopping"
  /\ state' = "Stopping"
  /\ infoGroup' = FALSE
  /\ UNCHANGED <<inForm, local, server, button, update, start, posted, snapshot, mishaps>>

-----------------------------------------------------------------------------

Worker == SendStart \/ StartAnswered \/ GoLive \/ StreamStarted \/ Setter("worker")

Snapshot == SnapshotSends \/ SnapshotAnswered

User ==
  \/ \E field \in {"title", "rating"}, value \in Values \ {0} : EditForm(field, value)
  \/ \E value \in Values \ {0} : ChooseThumbnail(value)
  \/ ChooseTooLarge
  \/ ClickUpdate \/ Stop

Main == SetStreamingUI \/ UpdateGoesOn \/ Setter("main")

Next == Worker \/ Snapshot \/ User \/ Main

Spec == Init /\ [][Next]_vars

-----------------------------------------------------------------------------
(* Properties *)

\* The Update button is hidden, and nobody is sending anything.
Settled ==
  /\ infoGroup
  /\ ~button
  /\ MainIdle

\* The main thread never updates a show while the worker is still in
\* streamStarted: the form is enabled only by the setStreamingUI posted at its
\* end, so the stale rating and thumbnail the worker has read never overwrite
\* newer ones, and a change is never dropped for a broadcast not yet Live.
OneUpdateAtATime ==
  update["main"].pc # "idle" => update["worker"].pc = "idle" /\ state = "Live"

\* While the Update button is hidden the viewers see the title and the rating
\* the form shows and the picture the Broadcast holds, but for a request that
\* has failed and, of the picture, an upload of the snapshot thread that is not
\* over, has crossed the update's, or did not find the file.
SentUnless ==
  Settled =>
    /\ \A field \in {"title", "rating"} :
         server[field] = form[field] \/ "failed" \in mishaps[field]
    /\ \/ server["thumbnail"] = local["thumbnail"]
       \/ mishaps["thumbnail"] # {}
       \/ snapshot.pc \in {"sleeping", "sent"}

\* While the Update button is hidden the Broadcast holds the title and the
\* rating the form shows and the file the dock names, if it names one; and the
\* preview shows that picture, unless the two were parted: before the show, by a
\* file without a picture, or by one too large that took the place of a choice
\* not yet sent.
HeldIsShown ==
  Settled =>
    /\ \A field \in {"title", "rating"} : local[field] = form[field]
    /\ fileName \in {0, local["thumbnail"]}
    /\ form["thumbnail"] = local["thumbnail"] \/ parted

\* "Hide this after updated are sent to backend": when an update hides the
\* button, the server has the title and the rating the form shows.
HiddenMeansSent ==
  [][~button' => \A field \in {"title", "rating"} : server[field] = form[field]]_button
=============================================================================
