# A TLA+ model of the Caffeine plugin for OBS

The plugin adds a dock to OBS Studio: the user signs in to caffeine.tv, types a
title, clicks *Go Live*, and OBS streams over SRT while the plugin tells the
Caffeine servers that the show is on. The code is small; what makes it hard is
that one show is driven by **five kinds of threads** (the Qt main thread, a
broadcast's worker, the websocket event loop, a detached snapshot thread, and the
threads OBS raises its events on), that each of them makes HTTP requests with
shared credentials that expire, and that any of them may be overtaken by *End
Show*, by a lost connection or by OBS.

This directory holds the specifications, the TLC configurations that check them,
and the TLAPS proofs of the results that hold for every value of the constants.
Paths below are relative to the repository (`src/src/...` is its C++ code).

    tlc -config Broadcast.cfg Broadcast              # a run: see the table below
    tlapm BroadcastProofs.tla                        # the proofs

## 1. Inventory

### Components

| Component | State it keeps | Operations | What makes it correct |
|---|---|---|---|
| **Broadcast** (`broadcast.cpp`) | `broadcastState_`, `subscription_`, `broadcastThread_`, title, rating, thumbnail, feed and stage ids | `start`, `stop`, `createSrtFeed`, the setters; the worker `startHeartbeat`; the subscription's message and ended handlers; the snapshot thread | Live only when the subscription delivers and the server has accepted; one answer per start; off the air after a stop; no thread outlives the object |
| **Stage subscription and websocket client** (`websocket-api.hpp/.cpp`) | `connection_` of each `GraphqlSubscription`, the connections of `websocketpp`, the client's thread | `connect`, `disconnect`, opened/message/ended handlers, refresh of an expired credential, destruction | a subscribed connection has an owner that will close it; one source of stage updates; the destructor's join returns |
| **Instance** (`instance.cpp`) | `broadcast_`, `sharedCredentials_`, `userInfo_` | `authenticate`, `refreshAuth`, `signOut`, `createSrtFeed`, `startBroadcast`, `endBroadcast`, setters | keeps the protocol of a Broadcast; never destroys what a thread still uses |
| **Dock window** (`caffeine-dock-window.cpp`) | the widgets, `username_`, `refreshToken_`, `thumbnailFilename_` | sign in/out, Go Live/End Show, Update, the callbacks `streamStarted` and `streamFailed`, settings, destruction | the widgets say what is going on; every button comes back |
| **OBS event callback** (`plugin-main.cpp`) | none | `STREAMING_STOPPED` | a stop of the output ends the broadcast |
| **Requests and credentials** (`rest-api.cpp`) | `SharedCredentials`, the count of `retryRequest` | one function per request, `retryRequest`, `refreshCredentials` | retries are bounded; a refused credential is not sent again; a request returns |
| **Saved settings and session** (`caffeine-dock-window.cpp:536-565, 670-712`, `instance.cpp:181-201`) | a JSON file, and three copies of the refresh token | `saveSettings`, `loadSavedSettings`, `login`, `logout`, `refreshCredentials` | one person everywhere; a restart restores what the user last asked for |
| **Policy helpers** (`policy.cpp`, `utils.hpp`) | none | `annotateTitle`, `isOlderVersion`, `splitHashtags`, `trim` | a title the server can be sent, the tags that were typed, a new release noticed |

Without state or logic of their own: result names and logging, serialization and
URLs, the generated GraphQL types, forms, locale and images, build files, the unit
tests (of the policy helpers only), vendored libraries.

### How they interact

* **main thread → Instance → Broadcast**: direct calls. `endBroadcast` holds
  `broadcastMutex_` while `stop()` joins the worker, so the main thread is blocked
  until the worker's request in flight has been answered.
* **worker → server**: StartBroadcast, heartbeats, StopBroadcast, and within
  `streamStarted` the rating and the thumbnail.
* **worker / websocket thread → dock**: `startedCallback` and `failedCallback_` run
  on the caller's thread; they reach widgets only by calls *posted* to the main
  thread, handled in order.
* **websocket thread → Broadcast**: handlers hold a weak pointer and lock it. Each
  stage update moves `subscriptionState`; each end of a connection subscribes
  again, at once or after a pause.
* **OBS → dock**: the stop signal of an output is posted to the main thread. That
  the output is active is *asked* (`obs_frontend_streaming_active`), by whoever
  wants to know, when it wants to know: the dock and OBS can disagree.
* **all threads → SharedCredentials**: read, refresh and store are three separate
  locks. A refresh replaces neither the Instance's nor the dock's copy of the token.
* **a run of OBS → the next**: the settings file, written by the dock's destructor only.

### What is hard here

`stop()` against everything (the compare-and-swap to Live, `subscription_` reset
under another thread's `connect`, the snapshot thread's `this`, the last reference
dropped on the websocket thread); answers that are lost; connections that end while
being stored; a dock that reads OBS twice; failures reported when OBS is not active;
updates that failed and are compared with themselves; two refreshes at once; a
process that is killed before it has saved who is signed in.
`PROJECT.json` lists each of these under `hazards`, at its line, with the properties
that would notice.

## 2. The modules

| Module | Lines up with | Role |
|---|---|---|
| `BroadcastLifecycle` | what `broadcast.hpp` offers | abstract: the life of one broadcast as its owner and the server see it |
| `BroadcastCallbacks` | `start`, `stop`, the two callbacks | abstract: what a Broadcast's owner and its threads show each other |
| `SubscriptionSlot` | `subscription_` in `broadcast.cpp` | abstract: how far the present stage subscription has got |
| `Broadcast` | `broadcast.cpp`: start, stop, worker, handlers, snapshot | detailed: four threads; implements the three above |
| `BroadcastInvariant` | – | the inductive invariant `IInv` |
| `BroadcastProofs` | – | 12 theorems about `Broadcast` |
| `CallbacksProofs` | – | `Broadcast` implements `BroadcastCallbacks` |
| `StageSubscription`, `StageSubscriptionProofs` | `websocket-api.hpp/.cpp`, `setupSubscription` | objects and connections; implements `SubscriptionSlot` unless overtaken; 5 theorems |
| `Dock`, `DockProofs` | dock, `instance.cpp`, `plugin-main.cpp` | many broadcasts in a row, clicks, posted calls, OBS; composed with `BroadcastCallbacks`; 5 theorems |
| `StageUpdate`, `StageUpdateProofs` | the setters, the Update button, `streamStarted` | three threads writing title, rating and thumbnail; 4 theorems |
| `Requests`, `RequestsProofs` | `rest-api.cpp` | retries and refreshes of concurrent callers; 5 theorems |
| `Session`, `SessionProofs` | dock, `instance.cpp`, `rest-api.cpp`, the settings file | who is signed in over many runs of OBS, some of them killed; 6 theorems |
| `Policy`, `PolicyProofs` | `policy.cpp`, `utils.hpp`, the validator of the hashtags | titles, hashtags, versions; 5 theorems |

### How state and actions correspond to the code

**`Broadcast`.** One object. A thread is a program counter (`appPc`, `workerPc`,
`wsPc`, `snapPc`) and a step is what it does between two accesses to state that
another thread shares; a request is one step with all its outcomes.
`broadcastState`, `subscriptionState` and `opened` (the promise) carry the source's
names. `subscription` is how far the *current* object has got. `stageStarted` and
`lost` are the server's side: it may hold a stage this object has started; a start
or stop request got no usable answer. `fault` is how the process died; a fault ends
a behaviour, as undefined behaviour or `std::terminate` would. `WorkerX` actions
are `startHeartbeat` and the code before it, line by line; `WsX` the lambdas of
`setupSubscription`; `Release` is `Instance::endBroadcast` dropping its pointer.
The 100 ms polls between two heartbeats are one loop check: they only read the state
again. `tryNum` saturates where the back-off of the code does.

**`StageSubscription`.** Who owns what. `subscription` is the strong pointer of the
Broadcast, `locked` the one of a running handler; destruction is a step of whoever
drops the last. `call[t]` is a thread inside `setupSubscription` or `connect`: the
object is assigned, the connection made, and *then* stored, and `overtaken`
remembers that the connection had an event in between. `Close` is what the library
does: it refuses to close a connection that is still connecting. Objects and
connections that nothing refers to are used again, so reconnections are unbounded.

**`SubscriptionSlot`** is the interface between these two: one variable, from null through
fresh, connecting and open to ended. In `Broadcast` it is the variable `subscription`
(`ImplementsSlot`); in `StageSubscription` it is computed from the objects, the connections
and the threads inside `connect` (`Progress`). `KeepsToSlot` says that what is computed moves in
the same way and that updates come only while it is open, as long as no
event overtakes the store of its connection; a broadcast in which one does is beyond what
`Broadcast` describes, and `StageSubscription` alone describes it. *Ended* means that the ended
handler has been called: after a refresh it is called for the connection that the refresh
has closed, and the subscription that has connected again is replaced all the same.

**`BroadcastCallbacks`** is the interface between a broadcast and whoever owns it, with one
actor on each side. The owner makes a Broadcast, starts it at most once, stops it
at most once (started or not), and has given it up when that `stop()` returns. The threads call
`startedCallback` at most once, `failedCallback` any number of times, and answer a stop by
ending the worker; one handler of the websocket thread may be left over (`late`), and may
still report a failure. `Broadcast` defines these four variables of its own state
(`Called`, `Shown`, `Late`) and implements the module: `ImplementsCallbacks`, checked by TLC
and proved.

**`Dock`.** The main thread is `uiPc`: in its loop, between the two looks of
`onGoLiveBtnClicked`, before `startBroadcast`, in the join, or gone. `queue` is
what has been posted to it. The threads of its broadcasts take the steps of
`Callbacks == INSTANCE BroadcastCallbacks`, each conjoined with what the dock's
callback does: so what the dock meets is what `Broadcast` is proved to show, and
nothing less. The owner's side is the dock's own: its steps are written from the code, and
`UsesBroadcastRightly == Callbacks!Spec` shows that together with Instance and OBS they keep to the interface, in TLC and by proof.
`obs` and `signals` are external: an output that ends becomes inactive and raises its signal
in either order. `mishaps` is a history variable that the properties use to say
*when* something may go wrong.

**`StageUpdate`.** `form`, `local` and `server` hold the three fields three times:
in the widgets, in the Broadcast, at the server. Of the thumbnail the dock keeps two things, the preview
(`form["thumbnail"]`) and the name it gives the Broadcast (`fileName`, `thumbnailFilename_`), and they
differ: a file of more than 2 MB empties the name and leaves preview and Update button alone
(`ChooseTooLarge`), a file that holds no picture empties the preview (`ChooseThumbnail`), a sign-out before the show clears the
preview only (`Init`). `parted` is history: it remembers that the preview shows another picture than was
given. `onClearThumbnailBtnClicked` is no action, its button being disabled during a show. `update[t]` is a setter call step by
step (compare and assign, look at the state, send, answer); the snapshot thread reads
the file name without the lock, so while it is being assigned any of three values is
found, and sends a screenshot in place of a file that is gone (`missing`). Values are `1..MaxValue`; 0 is the value before the first (no title, rating
Unknown, no file, an empty preview, or a screenshot at the server).

**`Requests`.** A set of credentials is its issue number. `call[c]` is one caller's
`retryRequest`; five kinds of requests differ in what they retry. The recursion of a
request function after a refresh is the same turn of the retry loop. `failures`,
`refused` and `carried` are history: what the counting, the resending and the repeating are
compared with. Whatever the outcome of an attempt that was not refused, the server may have carried it out
or not; what it answers with a 401 it has not.

**`Session`.** `file` is the settings file, `username` and `refreshToken` the members of the
dock, `creds` the refresh token in `sharedCredentials_` (set and reset together with `userInfo_`). A
token is a record of its user and a serial. The server is external: `issued`, `accepted`
and `replaced` are the tokens it has handed out, those it takes, and those it has
exchanged for another; whether it goes on taking the old one is its choice, and any token
may expire. `Launch` is the constructor with `loadSavedSettings`, whose refresh may succeed, be
refused or get lost; `Quit` is the destructor, `Die` any other end, in which the file may be the
old one, the new one or missing. `wanted` and `lost` are history: whom the user last
signed in, and whether a process died before that was saved; `unanswered` says that a request
of this run got no usable answer.

**`Policy`.** A text is a sequence of five kinds of characters; `Encode` makes it the bytes
of a `std::string`, a wide character taking two. `Trim`, `AnnotateTitle` and
`SplitHashtags` work on these as the code does: `Without` is the erase-remove of a
token's spaces, `Read` what `std::getline` makes of the next character of the stream, and
`after[n]` what has been read after `n` of them. `Accepts` is the validator's
regular expression for the text as far as it has been typed. The user types one character at a time and may have the
text sent as a title (`request`). A version has three components of one digit or two to
the base `Base`; `RunTogether` is what `std::stoi` makes of the tag with its dots erased.
Releases count up as releases do, and the installed version is any earlier one.

## 3. The runs

Twelve runs; sizes are TLC's distinct states.

| Run | States | What is asked, and what it shows |
|---|---|---|
| `broadcast` | 219 205 | All of `Broadcast`. The callbacks never contradict each other; a finished worker leaves the stage live only after a lost answer or after giving up its heartbeats; a takeover is only reported of a feed that had appeared; the destructor runs neither under the worker nor under a handler (the snapshot thread, which holds nothing, may find the object gone: the fault `useAfterFree`); every race on `subscription_`, on `this` and on the websocket thread needs a `stop()`; the state follows its life cycle; stage progress is not forgotten; `BroadcastLifecycle`, `BroadcastCallbacks` and `SubscriptionSlot` are implemented; `stop()` returns; a start is answered; an ended subscription is replaced |
| `broadcast_off_air` | – | *Violation.* "Heartbeat failed …; ending broadcast." – nothing is ended |
| `subscription` | 790 910 | No subscribed connection is leaked, there is one source of stage updates, `connect` finds its object gone only if a `stop()` or an event has overtaken it, unless one has, the objects and connections move as `SubscriptionSlot` does, and the destructor's join returns, except for the leak that `close()` leaves |
| `dock` | 209 774 | A live broadcast shows *End Show*; the two ways to lose credentials or to run a broadcast that OBS does not stream need the mishaps named; the dock uses its broadcasts as `BroadcastCallbacks` allows; the main thread comes back from `stop()`; a stop signal ends the broadcast; the button comes back, but for four unanswered mishaps |
| `dock_button` | – | *Violation.* "Disable the Button until it finishes the process" – it may never be enabled again |
| `dock_sign_out` | – | *Violation.* "Disable sign out button when streaming" – after a failure it is enabled under running threads |
| `dock_login` | – | *Violation.* "A broadcast is already online" of one that never started |
| `stage_update` | 1 699 392 | The main thread never updates while the worker is in `streamStarted`; once the Update button is hidden, the Broadcast holds the title and the rating the form shows and the file the dock names, if it names one, and the preview shows that picture unless the two were parted; the viewers see what the Broadcast holds, but for failed requests and, of the picture, a first upload that is not over, has crossed the update's or did not find the file |
| `stage_update_hidden` | – | *Violation.* "Hide this after updated are sent to backend" – after a failure the same value is not sent again and the button hides |
| `requests` | 177 660 | No request is resent with what it was refused with; attempts are counted across refreshes; the server carries out a request once for each failed attempt and once more at most, and never because of a refresh; every request returns |
| `session` | 1 591 935 | Name, saved token, file and credentials are of one person; sign-in and sign-out survive a restart unless the process was killed first; a shown user has no credentials only after a rejected token or an unanswered request; the token that will be saved is stale only after a refresh |
| `policy` | 1 335 852 | The tags are the words typed, but for tabs; a title is the text or as much as fits; a request for a title throws only when a character was cut in two; every newer release is noticed as long as no component has changed its number of digits |

Each violation run is one finding of `PROJECT.json`, with the line it disagrees with.
The counterexamples are short; what each needs is told in "Findings" below.

`Broadcast` and `Dock` meet in `BroadcastCallbacks`. The first lets its owner do what the abstract
owner may do and shows that its threads do no more than the abstract threads; the second lets
its threads do what the abstract threads may do and shows (`UsesBroadcastRightly`) that
the dock does no more than the abstract owner. Both are proved, so the composition does not
rest on the bounds of the two runs. A broadcast that never started can be
stopped on both sides (`StopAnnounce` from `created`).

`Broadcast` and `StageSubscription` meet in `SubscriptionSlot` in the weaker sense that both are
proved to move it in the same way: the threads of the one and the connections of the other are not run
together. `OneStageFeed` and `KeepsToSlot` are what lets `Broadcast` take one step per
stage update, without asking which connection has brought it.

What TLAPS proves for every value of the constants and what says little beyond
types, counts or the inductive invariant is not run as well: `TypeOK` of every module, `IInv`, `LiveOnlyWhenReady`, `IssuesFlowForward`.

### Bounds, and why they are enough

* `MaxFailures = 1` (5 in the code): the second failed heartbeat in a row ends the
  broadcast; none, one, and one too many are all there. The theorems hold for every value.
* `MaxTry = 2`: one delay and a longer one. No guard reads the number. Proved for all.
* Three subscription objects and three connections: the one replaced, the one that
  replaces it, and one more that a handler still holds. No symmetry, since the same run checks
  a liveness property. The safety properties are proved for any sets.
* `MaxQueue = 1`: the *user* clicks only with at most one call waiting; threads and OBS
  post regardless of it. `MaxSignals = 1`: no new output is started with a stop
  signal outstanding, so that a signal of the last output can still come for the next
  broadcast. The safety properties are proved for every value of both.
* `MaxValue = 2`: an old value and a new one; only equality is used. Proved for all.
* Two callers, three issues, hence two refreshes: enough for each caller to overwrite the
  other's. `NumRetries = 2` (3 in the code): an attempt that is retried and the last one, which is
  not. Proved for all.
* `Session`: two users and three tokens of each: the one saved, the one it was
  replaced by, and one more of another sign-in. Proved for all.
* `Policy`: texts of five characters hold two words, the separators around and between them, and one word too many;
  a title of three bytes is cut before, in and after a wide character. `Base = 2` and
  components up to 2 make the second release of a kind the one with two digits, as 10 is in
  the code. Proved for texts of any length, any longest title, any base and any bounds.

### Deadlock

`CHECK_DEADLOCK FALSE` stands in the runs whose system really ends: the object
destroyed (`Broadcast`, `StageSubscription`), the dock destroyed or the process dead
(`Dock`), the show over (`StageUpdate`), all typed and installed or the process ended by
an exception (`Policy`). `Requests` and `Session` never end and are checked.

### Fairness

Weak fairness per thread is the operating system's scheduling: a thread that can
take a step does so in the end. Beyond that:

* `Broadcast`: the application need not call `stop()`, only finish one. The websocket
  thread finishes a handler it is in; servers owe no message.
* `StageSubscription`: the library ends what is connecting (time-out) and what is
  closing (close handshake time-out). What is open may stay so.
* `Dock`: strong fairness on `HandlePost`, and nowhere else. Each turn of Qt's loop
  delivers what has been posted, so clicks, which disable it again and again,
  cannot hold it off for ever. A broadcast's threads end their starts and stops as `Broadcast`
  is checked to do (`StartAnswered`, `StopReturns`), and OBS finishes what it has begun,
  including the signal it owes. Nobody has to click.
* `Requests`: a request under way goes on, because curl has a time-out. Refreshes come
  to an end because the server issues finitely many credentials (`MaxIssue`): a server
  that refuses each of the credentials it has just issued would keep a call going for
  ever, there being no count in the code, and `EveryCallReturns` does not claim otherwise.
* `StageUpdate`, `Session` and `Policy` have safety properties only.

## 4. The proofs

`tlapm` checks every proof to the last leaf. The assumptions are those of the
modules: `MaxFailures \in Nat`, `MaxTry \in Nat \ {0}`; `NumRetries`, `MaxIssue \in Nat \ {0}`,
and any set of callers; `MaxQueue, MaxSignals \in Nat`; `MaxValue \in Nat \ {0}`; any objects and
connections, with a `NoSub` and a `NoConn` that are none of them; any users and serials, with a `Nobody` and a `NoToken` that are none of
them; `Base` at least 2 and the other bounds of `Policy` natural numbers, `MaxComponent` of two digits.

**`BroadcastProofs`.** None of the safety properties is inductive alone. `TakeoverJustified`
needs to know where the websocket thread may be while the worker has not yet
connected; `StageLeftLiveOnlyIf` needs to know that each worker that holds an accepted
broadcast is on its way to a StopBroadcast or to a report; `DestroyedOnlyWhenUnused`
needs to know that a stopped owner has joined. `IInv` says these things thread by
thread: `AppInv` (what the owner's position tells of state and worker), `WorkerInv`
(what each position of the worker takes for granted), `FailuresInv`, `SubscriptionInv`,
`WsInv`, `LifetimeInv`. One lemma per part (`AppKept`, `WorkerKept`, …) takes `IInv` and a step
and goes through the four threads; `NextIInv` joins them, and the
invariants follow as corollaries. TLC found `IInv` to hold before it was proved.

`TransitionsAreLegal` and `ProgressIsKept` are action properties from the same
invariant. `Implementation` is the refinement: `InitLifecycle`, then each thread's steps
mapped to a step of `BroadcastLifecycle` or a stutter (`AppLifecycle`,
`WorkerLifecycle`, `WsLifecycle`, `SnapLifecycle`), with
`phase` computed from `appPc` and `alive`, `onAir` from `stageStarted`, `crashed`
from `fault`. `SlotImplemented` refines `SubscriptionSlot` with one invariant more
(`ResubscribeInv`: what the websocket thread is about to replace has ended or was dropped, and what it
is about to connect is fresh or was dropped).

**`RequestsProofs`.** `TypeOK` is inductive. `AttemptsBounded` and
`IssuesFlowForward` are inductive relative to it: the second says what makes
`NeverResendsRefused` true, namely that what a refresh brings has been seen
nowhere else, so storing it, in whatever order, never brings an old credential back.
`RepeatedOnlyByRetries` rests on the count: an attempt that may have been carried out either ends the
request or is one of the failures (`AttemptCarries`); no other step touches either number
(`WithinAttempt`).

**`CallbacksProofs`.** `CallbacksImplemented` is the second refinement. `InitCallbacks` maps the
initial state; one lemma per thread maps each of its steps to a step of `BroadcastCallbacks` or a
stutter, under `IInv`, which is what says that a worker about to report a failure has not been
stopped silently, and that a handler that outlives the stop is the only one left.

**`SessionProofs`.** The four invariants follow from one `IInv` that relates the copies of
a token: file, dock and credentials hold issued tokens of the user they name; `creds` and
`refreshToken` differ only if the latter was replaced; a dock without credentials has had its token
refused or a request unanswered. One lemma per action; the server's `Exchange` is
a lemma of its own (`ExchangeFacts`), shared by the start of a run and the refresh.

**`PolicyProofs`.** Versions: `HigherPlaceWins` is the arithmetic of a digit of higher place; `OrderKept`
carries it to versions of equal widths: run together, they compare as their components do. `NoticeIsRight` then needs
that the installed version is never later than the released one (`VersionsOK`, inductive).

Texts: `TitleIsRight`, `TagsAreRight` and `ThrowsAreCuts` are about what three loops make of a text
of any length, hence need induction, which the module builds for sets of numbers and of sequences
(`Induction`, `SeqInduction`) from the fact that each nonempty set of numbers has a least one. `FlattenSeq`
is unfolded by showing that the function it chooses exists and is the only one. A title: `TrimIs` finds the
core between the spaces of the bytes, `CoreIsTrimmed` that it is the encoding of the text between its
own (`Framed`), since no byte of a wide character is a space; `EncodedIsValid` and `CutThroughCharacter` say which
prefixes of an encoding are not valid. `ThrowsOnlyWhenCut` is strengthened to `ThrewInvalid`: a request that threw was
of the very text now shown. Hashtags: `ReadOK` is the invariant of the
loop, over the characters read: the tokens delivered and the one being read hold the letters so far, in
order, and there is one for each word that has started; `ReadSeparator` and `ReadCharacter` are its two
steps, `AfterIsOK` the induction, and `TagsFacts` compares the words counted with what `Accepts` allows.

**`DockProofs`.** The three invariants need to know what the other threads have already posted or
still will. `IInv` adds `MainInv` (the main thread is in `endBroadcast` exactly while a
broadcast is stopping), `SignInv` and `ButtonsInv` (who may broadcast has no way to sign out, and the
Go Live button tells whether there is a broadcast), and `OutputInv` (an output that is down was
told, or a call that will tell is posted). Facts about the queue are lemmas of their own
(`PostedOne`, `PostedTwo`, `Delivered`); the step lemmas cite them. `BroadcastIsUsedRightly` maps each step
of the main thread to a step of the abstract owner or a stutter (`ClickCallbacks`,
`HandlerCallbacks`); the threads' steps conjoin that module's own (`ThreadsCallbacks`).

**`StageUpdateProofs`.** `HeldIsShown` is true because a setter, wherever it is, works on what the dock
gives (`Given`), and a chain of setters has been through every field before the button is hidden
(`SetterInv`, by field and position: each is held, or the name is empty and `Holds` claims nothing); nothing edits the
form meanwhile (`PhaseInv`). For the preview `HeldInv` adds that, unless parted, it shows the file that is
named, or what is held if none is: a file too large keeps this when nothing unsent is dropped (`ChooseTooLargeInv`), and a setter given an
empty name assigns nothing. `SentInv` carries what is held to the server: the server shows it, or a request is on its way, or has
failed. `OneThreadUpdates` is `PhaseInv` itself, with the worker's position from `TypeOK`.

**`StageSubscriptionProofs`.** All but the types is relative to `~overtaken`. `WorkerFirst`: until
the first connection is stored nothing else is connected, so the two threads never set up
at the same time. `SetupInv`: the object `connect` works on is there and knows no connection that
might escape `Close`. `OwnInv`: what is connecting or open is known to its object or about to be;
what is subscribed is known. `FeedInv` (what replaces a running handler's object gets nothing yet) makes two
feeds impossible: each would belong to its own object, and there is one object at most with one.
`SlotIsKept` needs one invariant more, `SlotInv`: who may be about to replace or to connect
`subscription`, and that a `stop()` is all that can have changed it under them. One lemma per action
says how the computed slot moves (`SlotAssign`, `SlotConnect`, …); `FeedsAreCurrent` that a feed's
object is the present one.

**Only model-checked**: all liveness (`JoinReturns`, `UiReturns`, `StopReturns` and the others
above), which need fairness and ENABLED. Every safety property of every passing run, action
properties and refinements included, is proved.

## 5. Findings

* **Off the air?** (`broadcast.cpp:344`) A worker that gives up on its heartbeats leaves
  the loop in state Live, so StopBroadcast is skipped; the `stop()` that follows only
  joins it. `StageLeftLiveOnlyIf` shows this and lost answers to be the only ways.
* **A button that stays disabled** (`caffeine-dock-window.cpp:289`, and 341, 449): four
  ways out of the process have no handler. `ButtonComesBack` shows there is no fifth.
* **Signing out under a broadcast** (`caffeine-dock-window.cpp:453`): a failure makes the
  dock offline before the broadcast is ended.
* **Already broadcasting** (`instance.cpp:183`): `broadcast_` stays set when the server
  refuses the feed, and sign-in is refused for it.
* **Hidden means sent?** (`broadcast.cpp:174`): the setters assign before they send, so a
  failed update counts as unchanged and is reported as done when tried again.

Not findings, there being no text they disagree with, but what the properties are
worded around: *End Show* starts another broadcast over one that OBS does not stream, because the
button's text comes from the broadcast and its meaning from OBS (`caffeine-dock-window.cpp:268`,
`UnstreamedOnlyIf`); a refresh at any time leaves the token that will be saved stale
(`StaleTokenOnlyIf`); 0.10.0 is taken for newer than 1.0.0 (`NewerIsNoticed` says when not); a title cut inside a character ends the process
(`ThrowsOnlyWhenCut`); a tab joins two hashtags or makes an empty one (`TagsAreWords`); a file too large, chosen over one
that has not been sent yet, leaves a preview the viewers never see, and Update hides all the same
(`caffeine-dock-window.cpp:408`, `HeldIsShown`); signing out clears the preview and keeps the name, so that the
next show has a thumbnail the form does not show (`caffeine-dock-window.cpp:632`).

What the properties leave open. Some of them name a hazard in order to say *when* it can bite, not that it
cannot: the code lets it happen, no text of the repository says otherwise, and the property is the strongest
that is true. So the faults of `Broadcast` (a null `subscription_`, the snapshot
thread's use of a destroyed object, the join of the own thread) are allowed after a `stop()`, the empty
optional and the uncaught exception always; a failure may be reported of a broadcast that has started; `StageSubscription`
excepts overtaken stores and the leak of `close()`; a late stop signal may end the next broadcast; a kill loses what was not
saved; a refresh makes the saved token stale; a server that refuses for ever keeps a call going; tabs and
a component that grows by a digit are excepted. `PROJECT.json` says this in the `note` of each such hazard.

## 6. Not modelled

* *Payloads, parsing, wording, layout*: reduced to the verdict the code reaches.
* *Rates and delays*: a Closed connection is replaced without delay or limit
  (`broadcast.cpp:548`); the number of reconnections is unbounded in the models, their rate is not expressed.
* *What the server makes of a repeated mutation* (StartBroadcast or AddFeed carried out twice): not in
  the source. `RepeatedOnlyByRetries` bounds how often; in `Broadcast` a lost answer leaves the stage live or not.
* `updateFeed`, which nothing calls, and `currentFeedInput`'s quality, which is never
  sent after the feed was created.
* *checkInternetConnection*, *checkCaffeineConnection*: one request without retry or state.
* *The settings of OBS* that `setSrtURL` and `clearSrtURL` write, and the list of categories: written or
  read once, and never compared with anything.
* *The form while no show is on*: `StageUpdate` starts from whatever preview and name it can have been left with. A
  file whose content changes under the same name, which a setter takes for unchanged, is not told apart from one that does not.
* *Module load and unload*: registration. The callback is registered with a null `private_data`
  and calls `stopStreaming` on it (`plugin-main.cpp:69`), which works only as long as that method reads no
  member; it is modelled as the call it makes.
* *Single-call edges* with no state to relate: `std::stoi` of a tag that does not begin with a
  digit (`rest-api.cpp:274`), `isspace` of a negative byte (`utils.hpp:19`), the condition that is always true
  before the refresh at start (`caffeine-dock-window.cpp:690`; `Launch` does ask with an empty token),
  `file_size` of a chosen file that has been removed meanwhile, which throws (`caffeine-dock-window.cpp:404`).
* *Third-party code and generated code*: conversions, and libraries.

The map covers about half of the 3 900 lines of `src/src`, the program itself. Of the rest of those, most is
the set-up of widgets, of curl handles and of log messages, and the reading of answers whose
verdicts are outcomes of the models' requests. The other 162 000 lines of `src` are vendored
(`nlohmann_json`, `asio`, `websocketpp`), generated (`src/src/generated`) or tests, and not
the program's own logic.

## 7. Plan

Done, in the order of importance: `Broadcast` with `BroadcastLifecycle` and its proofs;
`StageSubscription`; `Dock`; `StageUpdate`; `Requests`, `Session` and `Policy` with their proofs; `Dock` and
`Broadcast` composed through `BroadcastCallbacks`; `Broadcast` and `StageSubscription` related
through `SubscriptionSlot`. Every safety property of the runs is proved.

What is left: the broadcast of a subscription whose event has overtaken the store of its
connection (a feed that `Broadcast` does not know it has), which needs a slot of two
connections; and a fault model of the server for a repeated
StartBroadcast or AddFeed, once its behaviour is documented.
