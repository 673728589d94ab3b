-------------------------- MODULE StageUpdateProofs --------------------------
(***************************************************************************)
(* The updates of a show, for any number of values: one thread updates at  *)
(* a time, the Broadcast holds what the dock has to give, and that is what *)
(* the viewers see, but for the requests that failed.                      *)
(***************************************************************************)
EXTENDS StageUpdate, TLAPS

-----------------------------------------------------------------------------
(* The inductive invariant *)

\* The form is enabled, and the main thread updates, only in a live show whose
\* worker has left streamStarted.
PhaseInv ==
  /\ posted \/ infoGroup \/ ~MainIdle => start = "done"
  /\ infoGroup \/ ~MainIdle => state = "Live"
  /\ start \in {"started", "done"} => state # "Streaming"
  /\ start = "done" <=> snapshot.pc # "none"

\* The fields a chain of setters has been through before this one.
Earlier(field) ==
  CASE field = "title"     -> {}
    [] field = "rating"    -> {"title"}
    [] field = "thumbnail" -> {"title", "rating"}

\* The Broadcast holds what the dock has to give it, if that is anything.
Holds(field) == Given(field) \in {0, local[field]}

\* A setter works on what the dock gives, and what it has been through is held.
SetterInv(t) ==
  LET u == update[t] IN
  u.pc # "idle" =>
    /\ \A field \in Earlier(u.field) : Holds(field)
    /\ u.pc \in {"set", "check", "send", "sent"} => u.value = Given(u.field)
    /\ u.pc \in {"check", "send", "sent"} => local[u.field] = Given(u.field)
    /\ u.pc = "returned" => Holds(u.field)
    /\ u.pc = "sent" => u.payload = local[u.field]
    /\ t = "worker" => u.field # "title"

HeldInv ==
  /\ \A t \in Threads : SetterInv(t)
  /\ \/ parted
     \/ form["thumbnail"] = IF fileName = 0 THEN local["thumbnail"] ELSE fileName
  /\ start # "done" => local["title"] = form["title"]
  /\ start = "sent" => update["worker"].payload = local["title"]
  /\ start = "done" /\ state = "Live" /\ MainIdle /\ (infoGroup => ~button) => \A field \in Fields : Holds(field)

\* Thread t has a new value of the field that the server does not show yet.
Sending(t, field) ==
  update[t].field = field /\ update[t].pc \in {"check", "send", "sent"}

\* The server shows what the Broadcast holds of a show that is live, unless it
\* is about to, or has been asked to in vain.
SentInv ==
  /\ start \in {"accepted", "started", "done"} =>
       \/ server["title"] = local["title"]
       \/ "failed" \in mishaps["title"]
       \/ Sending("main", "title")
  /\ state # "Stopping" =>
       \/ server["rating"] = local["rating"]
       \/ "failed" \in mishaps["rating"]
       \/ \E t \in Threads : Sending(t, "rating")
  /\ snapshot.pc = "sent" =>
       \/ snapshot.file = local["thumbnail"]
       \/ mishaps["thumbnail"] # {}
       \/ AssignsThumbnail \/ Sending("main", "thumbnail")
  /\ snapshot.pc = "done" =>
       \/ server["thumbnail"] = local["thumbnail"]
       \/ mishaps["thumbnail"] # {}
       \/ AssignsThumbnail \/ Sending("main", "thumbnail")

IInv == TypeOK /\ PhaseInv /\ HeldInv /\ SentInv

-----------------------------------------------------------------------------
(* Every step keeps IInv *)

USE DEF vars, inForm, Threads, Fields, MainIdle, Given, Holds

\* A show not begun: the form is disabled, the title alone is held, nothing is sent.
LEMMA InitInv == Init => IInv
<1> SUFFICES ASSUME Init  PROVE IInv
  OBVIOUS
<1>1. TypeOK
  <2>1. /\ form \in [Fields -> Values] /\ form["title"] # 0 /\ form["rating"] # 0
        /\ fileName \in Values /\ parted \in BOOLEAN
    BY MaxValueAssumption DEF Init, Values
  <2>2. local \in [Fields -> Values] /\ server \in [Fields -> Values]
    BY <2>1, MaxValueAssumption DEF Init, Values
  <2>3. update \in [Threads -> Update] /\ update["worker"].pc = "idle"
    BY MaxValueAssumption DEF Init, Update, Idle, Values
  <2>4. snapshot \in [pc : {"none", "sleeping", "sent", "done"}, file : Values]
    BY MaxValueAssumption DEF Init, Values
  <2>5. mishaps \in [Fields -> SUBSET {"failed", "crossed", "missing"}]
    BY DEF Init
  <2> QED  BY <2>1, <2>2, <2>3, <2>4, <2>5 DEF Init, TypeOK
<1>2. PhaseInv
  BY DEF Init, PhaseInv, Idle
<1>3. HeldInv
  BY <1>1 DEF Init, HeldInv, SetterInv, Idle
<1>4. SentInv
  BY DEF Init, SentInv
<1> QED  BY <1>1, <1>2, <1>3, <1>4 DEF IInv

\* What a setter that is begun, and one that returns, make of update.
LEMMA Begun ==
  ASSUME TypeOK, NEW t \in Threads, NEW field \in Fields
  PROVE  /\ Begin(t, field) \in [Threads -> Update]
         /\ Begin(t, field)[t].pc = "set"
         /\ Begin(t, field)[t].field = field
         /\ Begin(t, field)[t].value = Given(field)
         /\ \A other \in Threads \ {t} : Begin(t, field)[other] = update[other]
<1> DEFINE u == [update[t] EXCEPT !.pc = "set", !.field = field, !.value = Given(field)]
<1>1. update \in [Threads -> Update] /\ update[t] \in Update /\ Given(field) \in Values
  BY DEF TypeOK
<1>2. Begin(t, field) = [update EXCEPT ![t] = u]
  BY <1>1 DEF Begin
<1>3. u \in Update /\ u.pc = "set" /\ u.field = field /\ u.value = Given(field)
  BY <1>1 DEF Update
<1> HIDE DEF u
<1> QED  BY <1>1, <1>2, <1>3

LEMMA Returned ==
  ASSUME TypeOK, NEW t \in Threads, NEW ok \in BOOLEAN, Returns(t, ok)
  PROVE  /\ update' \in [Threads -> Update]
         /\ update'[t].pc = "returned"
         /\ update'[t].field = update[t].field
         /\ \A other \in Threads \ {t} : update'[other] = update[other]
<1> DEFINE u == [update[t] EXCEPT !.pc = "returned", !.value = 0, !.payload = 0,
                                  !.result = IF ok THEN @ ELSE "failed"]
<1>1. update \in [Threads -> Update] /\ update[t] \in Update /\ 0 \in Values
  BY MaxValueAssumption DEF TypeOK, Values
<1>2. update' = [update EXCEPT ![t] = u]
  BY <1>1 DEF Returns
<1>3. u \in Update /\ u.pc = "returned" /\ u.field = update[t].field
  BY <1>1 DEF Update
<1> HIDE DEF u
<1> QED  BY <1>1, <1>2, <1>3

\* What is held becomes what the setter was given, or is so already.
LEMMA AssignInv ==
  ASSUME NEW t \in Threads, IInv, Assign(t)
  PROVE  IInv'
<1> USE DEF Assign, Returns
<1>1. TypeOK'
  BY MaxValueAssumption DEF IInv, TypeOK, Update
<1>2. PhaseInv'
  BY DEF IInv, TypeOK, PhaseInv, Update
<1>3. HeldInv'
  BY DEF IInv, TypeOK, PhaseInv, HeldInv, SetterInv, Earlier, Update
<1>4. SentInv'
  BY DEF IInv, TypeOK, PhaseInv, HeldInv, SetterInv, SentInv, Sending, AssignsThumbnail, Update
<1> QED  BY <1>1, <1>2, <1>3, <1>4 DEF IInv

\* A setter of the main thread finds the show Live; the worker may find it stopped.
LEMMA CheckLiveInv ==
  ASSUME NEW t \in Threads, IInv, CheckLive(t)
  PROVE  IInv'
<1> USE DEF CheckLive, Returns
<1>1. TypeOK'
  BY MaxValueAssumption DEF IInv, TypeOK, Update
<1>2. PhaseInv'
  BY DEF IInv, TypeOK, PhaseInv, Update
<1>3. HeldInv'
  BY DEF IInv, TypeOK, PhaseInv, HeldInv, SetterInv, Update
<1>4. SentInv'
  BY DEF IInv, TypeOK, PhaseInv, HeldInv, SetterInv, SentInv, Sending, AssignsThumbnail, Update
<1> QED  BY <1>1, <1>2, <1>3, <1>4 DEF IInv

\* The request says what is held, which is what the setter was given.
LEMMA SendInv ==
  ASSUME NEW t \in Threads, IInv, Send(t)
  PROVE  IInv'
<1> USE DEF Send
<1>1. TypeOK'
  BY MaxValueAssumption DEF IInv, TypeOK, Update
<1>2. PhaseInv'
  BY DEF IInv, TypeOK, PhaseInv, Update
<1>3. HeldInv'
  BY DEF IInv, TypeOK, PhaseInv, HeldInv, SetterInv
<1>4. SentInv'
  BY DEF IInv, TypeOK, HeldInv, SetterInv, SentInv, Sending, AssignsThumbnail
<1> QED  BY <1>1, <1>2, <1>3, <1>4 DEF IInv

\* An answer has the server show what was sent, or leaves a mishap behind.
LEMMA ReplyInv ==
  ASSUME NEW t \in Threads, IInv, Reply(t)
  PROVE  IInv'
<1> USE DEF Reply, Returns
<1>1. TypeOK'
  BY MaxValueAssumption DEF IInv, TypeOK, Update
<1>2. PhaseInv'
  BY DEF IInv, TypeOK, PhaseInv, Update
<1>3. HeldInv'
  BY DEF IInv, TypeOK, PhaseInv, HeldInv, SetterInv, Update
<1>4. SentInv'
  <2> USE DEF IInv, TypeOK, PhaseInv, HeldInv, SetterInv, SentInv, Sending, AssignsThumbnail, Update
  <2>1. CASE update[t].field = "title"
    BY <2>1
  <2>2. CASE update[t].field = "rating"
    BY <2>2
  <2>3. CASE update[t].field = "thumbnail" /\ t = "main"
    BY <2>3
  <2>4. CASE update[t].field = "thumbnail" /\ t = "worker"
    BY <2>4
  <2> QED  BY <2>1, <2>2, <2>3, <2>4
<1> QED  BY <1>1, <1>2, <1>3, <1>4 DEF IInv

\* The broadcast is started with the title held.
LEMMA SendStartInv ==
  ASSUME IInv, SendStart
  PROVE  IInv'
<1> USE DEF SendStart
<1>1. TypeOK'
  BY MaxValueAssumption DEF IInv, TypeOK, Update
<1>2. PhaseInv'
  BY DEF IInv, TypeOK, PhaseInv, Update
<1>3. HeldInv'
  BY DEF IInv, TypeOK, PhaseInv, HeldInv, SetterInv
<1>4. SentInv'
  BY DEF IInv, TypeOK, PhaseInv, HeldInv, SetterInv, SentInv, Sending
<1> QED  BY <1>1, <1>2, <1>3, <1>4 DEF IInv

\* The server shows the title it was sent: the form was disabled meanwhile.
LEMMA StartAnsweredInv ==
  ASSUME IInv, StartAnswered
  PROVE  IInv'
<1> USE DEF StartAnswered, Idle
<1>1. TypeOK'
  BY MaxValueAssumption DEF IInv, TypeOK, Update, Values
<1>2. PhaseInv'
  BY DEF IInv, TypeOK, PhaseInv, Update
<1>3. HeldInv'
  BY DEF IInv, PhaseInv, HeldInv, SetterInv
<1>4. SentInv'
  BY DEF IInv, TypeOK, PhaseInv, HeldInv, SetterInv, SentInv, Sending
<1> QED  BY <1>1, <1>2, <1>3, <1>4 DEF IInv

\* A worker that goes live has everything but the title to send.
LEMMA GoLiveInv ==
  ASSUME IInv, GoLive
  PROVE  IInv'
<1> USE DEF GoLive, Begin
<1>1. TypeOK'
  BY MaxValueAssumption DEF IInv, TypeOK, Update
<1>2. PhaseInv'
  BY DEF IInv, TypeOK, PhaseInv, Update
<1>3. HeldInv'
  BY DEF IInv, TypeOK, PhaseInv, HeldInv, SetterInv, Earlier, Update
<1>4. SentInv'
  BY DEF IInv, TypeOK, PhaseInv, HeldInv, SetterInv, SentInv, Sending, Update
<1> QED  BY <1>1, <1>2, <1>3, <1>4 DEF IInv

\* The worker is through once it has set the thumbnail; only then is the dock told.
LEMMA StreamStartedInv ==
  ASSUME IInv, StreamStarted
  PROVE  IInv'
<1> USE DEF StreamStarted, Idle
<1>1. TypeOK'
  <2>1. CASE update["worker"].field = "rating"
    <3>1. /\ update' \in [Threads -> Update]
          /\ update'["worker"].pc = "set"
      BY <2>1, Begun DEF IInv
    <3> QED  BY <2>1, <3>1 DEF IInv, TypeOK
  <2>2. CASE update["worker"].field # "rating"
    <3>1. Idle \in Update
      BY MaxValueAssumption DEF Update, Values
    <3>2. /\ update' \in [Threads -> Update]
          /\ update'["worker"].pc = "idle"
      BY <2>2, <3>1 DEF IInv, TypeOK
    <3> QED  BY <2>2, <3>2 DEF IInv, TypeOK
  <2> QED  BY <2>1, <2>2
<1>2. PhaseInv'
  BY DEF IInv, TypeOK, PhaseInv, Begin
<1>3. HeldInv'
  BY DEF IInv, TypeOK, PhaseInv, HeldInv, SetterInv, Earlier, Update, Begin
<1>4. SentInv'
  BY DEF IInv, TypeOK, HeldInv, SetterInv, SentInv, Sending, Update, Begin
<1> QED  BY <1>1, <1>2, <1>3, <1>4 DEF IInv

\* The snapshot thread finds the file held, or one that is about to be.
LEMMA SnapshotSendsInv ==
  ASSUME IInv, SnapshotSends
  PROVE  IInv'
<1> USE DEF SnapshotSends
<1>1. TypeOK'
  BY MaxValueAssumption DEF IInv, TypeOK, Update, Values
<1>2. PhaseInv'
  BY DEF IInv, TypeOK, PhaseInv, Update
<1>3. HeldInv'
  BY DEF IInv, PhaseInv, HeldInv, SetterInv
<1>4. SentInv'
  BY DEF IInv, TypeOK, HeldInv, SetterInv, SentInv, Sending, AssignsThumbnail
<1> QED  BY <1>1, <1>2, <1>3, <1>4 DEF IInv

\* And the server shows it, or a mishap is left behind.
LEMMA SnapshotAnsweredInv ==
  ASSUME IInv, SnapshotAnswered
  PROVE  IInv'
<1> USE DEF SnapshotAnswered
<1>1. TypeOK'
  BY MaxValueAssumption DEF IInv, TypeOK
<1>2. PhaseInv'
  BY DEF IInv, TypeOK, PhaseInv
<1>3. HeldInv'
  BY DEF IInv, PhaseInv, HeldInv, SetterInv
<1>4. SentInv'
  BY DEF IInv, TypeOK, HeldInv, SetterInv, SentInv, Sending, AssignsThumbnail
<1> QED  BY <1>1, <1>2, <1>3, <1>4 DEF IInv

\* An edit shows the Update button: nothing is claimed of the form until it is hidden.
LEMMA EditFormInv ==
  ASSUME NEW field \in {"title", "rating"}, NEW value \in Values \ {0}, IInv, EditForm(field, value)
  PROVE  IInv'
<1> USE DEF EditForm
<1>1. TypeOK'
  BY MaxValueAssumption DEF IInv, TypeOK
<1>2. PhaseInv'
  BY DEF IInv, TypeOK, PhaseInv
<1>3. HeldInv'
  BY DEF IInv, TypeOK, PhaseInv, HeldInv, SetterInv
<1>4. SentInv'
  BY DEF IInv, TypeOK, PhaseInv, HeldInv, SetterInv, SentInv, Sending, AssignsThumbnail
<1> QED  BY <1>1, <1>2, <1>3, <1>4 DEF IInv

\* So does the choice of a file, whether it holds a picture or not.
LEMMA ChooseThumbnailInv ==
  ASSUME NEW value \in Values \ {0}, IInv, ChooseThumbnail(value)
  PROVE  IInv'
<1> USE DEF ChooseThumbnail
<1>1. TypeOK'
  BY MaxValueAssumption DEF IInv, TypeOK, Values
<1>2. PhaseInv'
  BY DEF IInv, TypeOK, PhaseInv
<1>3. HeldInv'
  BY DEF IInv, TypeOK, PhaseInv, HeldInv, SetterInv
<1>4. SentInv'
  BY DEF IInv, TypeOK, PhaseInv, HeldInv, SetterInv, SentInv, Sending, AssignsThumbnail
<1> QED  BY <1>1, <1>2, <1>3, <1>4 DEF IInv

\* A file too large drops a choice not yet sent, or leaves the preview on what is held.
LEMMA ChooseTooLargeInv ==
  ASSUME IInv, ChooseTooLarge
  PROVE  IInv'
<1> USE DEF ChooseTooLarge
<1>1. TypeOK'
  BY MaxValueAssumption DEF IInv, TypeOK, Values
<1>2. PhaseInv'
  BY DEF IInv, TypeOK, PhaseInv
<1>3. HeldInv'
  BY DEF IInv, TypeOK, PhaseInv, HeldInv, SetterInv
<1>4. SentInv'
  BY DEF IInv, TypeOK, PhaseInv, HeldInv, SetterInv, SentInv, Sending, AssignsThumbnail
<1> QED  BY <1>1, <1>2, <1>3, <1>4 DEF IInv

\* The form is enabled of a live show, after streamStarted.
LEMMA SetStreamingUIInv ==
  ASSUME IInv, SetStreamingUI
  PROVE  IInv'
<1> USE DEF SetStreamingUI
<1>1. TypeOK'
  BY MaxValueAssumption DEF IInv, TypeOK
<1>2. PhaseInv'
  BY DEF IInv, TypeOK, PhaseInv
<1>3. HeldInv'
  BY DEF IInv, TypeOK, PhaseInv, HeldInv, SetterInv
<1>4. SentInv'
  BY DEF IInv, HeldInv, SetterInv, SentInv, Sending, AssignsThumbnail
<1> QED  BY <1>1, <1>2, <1>3, <1>4 DEF IInv

\* The main thread begins with the title the form shows.
LEMMA ClickUpdateInv ==
  ASSUME IInv, ClickUpdate
  PROVE  IInv'
<1> USE DEF ClickUpdate
<1>1. TypeOK'
  <2>1. /\ update' \in [Threads -> Update]
        /\ update'["worker"] = update["worker"]
    BY Begun, Zenon DEF IInv
  <2> QED  BY <2>1 DEF IInv, TypeOK
<1>2. PhaseInv'
  BY DEF IInv, TypeOK, PhaseInv
<1>3. HeldInv'
  BY DEF IInv, TypeOK, PhaseInv, HeldInv, SetterInv, Earlier, Begin
<1>4. SentInv'
  BY DEF IInv, TypeOK, HeldInv, SetterInv, SentInv, Sending, AssignsThumbnail, Begin
<1> QED  BY <1>1, <1>2, <1>3, <1>4 DEF IInv

\* It has been through all three fields when it hides the button.
LEMMA UpdateGoesOnInv ==
  ASSUME IInv, UpdateGoesOn
  PROVE  IInv'
<1> USE DEF UpdateGoesOn, Idle
<1>1. TypeOK'
  <2>1. Idle \in Update /\ update["main"].field \in Fields
    BY MaxValueAssumption DEF IInv, TypeOK, Update, Values
  <2>2. /\ update' \in [Threads -> Update]
        /\ update'["worker"] = update["worker"]
    <3>1. CASE update["main"].field = "title"
      BY <3>1, Begun DEF IInv
    <3>2. CASE update["main"].field = "rating"
      BY <3>2, Begun DEF IInv
    <3>3. CASE update["main"].field = "thumbnail"
      BY <2>1, <3>3 DEF IInv, TypeOK
    <3> QED  BY <2>1, <3>1, <3>2, <3>3
  <2>3. button' \in BOOLEAN
    BY Zenon, <2>1 DEF IInv, TypeOK
  <2> QED  BY <2>2, <2>3 DEF IInv, TypeOK
<1>2. PhaseInv'
  BY DEF IInv, TypeOK, PhaseInv
<1>3. HeldInv'
  <2> USE DEF IInv, TypeOK, PhaseInv, HeldInv, SetterInv, Earlier, Update
  <2>1. CASE update["main"].field = "title"
    BY <2>1 DEF Begin
  <2>2. CASE update["main"].field = "rating"
    BY <2>2 DEF Begin
  <2>3. CASE update["main"].field = "thumbnail"
    BY <2>3
  <2> QED  BY <2>1, <2>2, <2>3
<1>4. SentInv'
  BY DEF IInv, TypeOK, PhaseInv, SentInv, Sending, AssignsThumbnail
<1> QED  BY <1>1, <1>2, <1>3, <1>4 DEF IInv

\* Nothing is claimed of a show that is over.
LEMMA StopInv ==
  ASSUME IInv, Stop
  PROVE  IInv'
<1> USE DEF Stop
<1>1. TypeOK'
  BY MaxValueAssumption DEF IInv, TypeOK
<1>2. PhaseInv'
  BY DEF IInv, TypeOK, PhaseInv
<1>3. HeldInv'
  BY DEF IInv, PhaseInv, HeldInv, SetterInv
<1>4. SentInv'
  BY DEF IInv, HeldInv, SetterInv, SentInv, Sending, AssignsThumbnail
<1> QED  BY <1>1, <1>2, <1>3, <1>4 DEF IInv

LEMMA NextInv == IInv /\ [Next]_vars => IInv'
<1> SUFFICES ASSUME IInv, [Next]_vars  PROVE IInv'
  OBVIOUS
<1>1. ASSUME NEW t \in Threads, Setter(t)  PROVE IInv'
  BY <1>1, AssignInv, CheckLiveInv, SendInv, ReplyInv DEF Setter
<1>2. CASE Worker
  BY <1>1, <1>2, SendStartInv, StartAnsweredInv, GoLiveInv, StreamStartedInv DEF Worker
<1>3. CASE Snapshot
  BY <1>3, SnapshotSendsInv, SnapshotAnsweredInv DEF Snapshot
<1>4. CASE User
  BY <1>4, EditFormInv, ChooseThumbnailInv, ChooseTooLargeInv, ClickUpdateInv, StopInv DEF User
<1>5. CASE Main
  BY <1>1, <1>5, SetStreamingUIInv, UpdateGoesOnInv DEF Main
<1>6. CASE UNCHANGED vars
  BY <1>6 DEF IInv, TypeOK, PhaseInv, HeldInv, SetterInv, SentInv, Sending, AssignsThumbnail
<1> QED  BY <1>2, <1>3, <1>4, <1>5, <1>6 DEF Next

-----------------------------------------------------------------------------
(* What the runs check, for any number of values *)

LEMMA Invariance == Spec => []IInv
<1>1. Init => IInv
  BY InitInv
<1>2. IInv /\ [Next]_vars => IInv'
  BY NextInv
<1> QED  BY <1>1, <1>2, PTL DEF Spec

\* Every variable keeps its range, and the worker is in a setter exactly while
\* it is in streamStarted.
THEOREM TypeCorrect == Spec => []TypeOK
<1>1. IInv => TypeOK
  BY DEF IInv
<1> QED  BY <1>1, Invariance, PTL

\* The Update button never has the main thread in a setter while the worker is
\* in one, nor before or after the show is Live.
THEOREM OneThreadUpdates == Spec => []OneUpdateAtATime
<1>1. IInv => OneUpdateAtATime
  BY DEF IInv, TypeOK, PhaseInv, OneUpdateAtATime
<1> QED  BY <1>1, Invariance, PTL

\* With the Update button hidden the Broadcast holds what the form shows, and
\* the file the dock names if it names one: the comparison in a setter skips
\* nothing the user could still send.
THEOREM NothingIsSkipped == Spec => []HeldIsShown
<1>1. ASSUME IInv, Settled  PROVE HeldIsShown
  <2>1. \A field \in Fields : Holds(field)
    BY <1>1 DEF IInv, TypeOK, PhaseInv, HeldInv, Settled
  <2>2. \A field \in {"title", "rating"} : local[field] = form[field]
    BY <1>1, <2>1 DEF IInv, TypeOK
  <2>3. fileName \in {0, local["thumbnail"]}
    BY <2>1
  <2>4. form["thumbnail"] = local["thumbnail"] \/ parted
    BY <1>1, <2>3 DEF IInv, HeldInv
  <2> QED  BY <2>2, <2>3, <2>4 DEF HeldIsShown
<1>2. IInv => HeldIsShown
  BY <1>1 DEF HeldIsShown
<1> QED  BY <1>2, Invariance, PTL

\* With the Update button hidden the viewers see the title and the rating the
\* form shows and the picture the Broadcast holds, but for the requests that
\* failed, the pictures that crossed, and the file that was gone.
THEOREM ViewersSeeTheForm == Spec => []SentUnless
<1>1. ASSUME IInv, Settled  PROVE SentUnless
  <2>1. /\ start = "done" /\ state = "Live"
        /\ \A field \in {"title", "rating"} : local[field] = form[field]
    BY <1>1 DEF IInv, TypeOK, PhaseInv, HeldInv, Settled
  <2>2. \A t \in Threads, field \in Fields : ~Sending(t, field)
    BY <1>1, <2>1 DEF IInv, TypeOK, Sending, Settled
  <2>3. snapshot.pc \in {"sleeping", "sent", "done"} /\ ~AssignsThumbnail
    BY <1>1, <2>1 DEF IInv, TypeOK, PhaseInv, AssignsThumbnail, Settled
  <2> QED  BY <1>1, <2>1, <2>2, <2>3 DEF IInv, TypeOK, SentInv, SentUnless
<1>2. IInv => SentUnless
  BY <1>1 DEF SentUnless
<1> QED  BY <1>2, Invariance, PTL
=============================================================================
