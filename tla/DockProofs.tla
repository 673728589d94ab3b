----------------------------- MODULE DockProofs -----------------------------
(***************************************************************************)
(* The dock, for any bounds: it owns its broadcasts as                     *)
(* BroadcastCallbacks.tla lets it, and what it shows, signs out and leaves *)
(* running goes wrong in the named ways only.                              *)
(***************************************************************************)
EXTENDS Dock, SequenceTheorems, TLAPS

-----------------------------------------------------------------------------
(* The inductive invariant *)

\* The main thread is in the join exactly while a broadcast is being stopped,
\* and starts only a broadcast it has just made; an output that is going to
\* end has room for its signal.
MainInv ==
  /\ broadcast = "stopping" <=> uiPc = "join"
  /\ uiPc = "start" => broadcast = "made"
  /\ obs \in {"connecting", "active"} => signals < MaxSignals

\* Nobody signs in but who is signed out, and nobody broadcasts signed out.
SignInv ==
  /\ signedIn => signInButton.text = "SignOut" /\ ~mfaRow
  /\ uiPc = "start" => signedIn
  /\ broadcast = "running" /\ fault = "none" => signedIn

Clean == mishaps \cap {"failed", "clickedOver"} = {}

\* Who may broadcast cannot sign out, from the click on Go Live on, until a
\* failure is posted or another click has come.
ButtonsInv ==
  /\ uiPc \in {"check", "start"} => ~signInButton.enabled /\ goLiveButton.visible
  /\ uiPc = "check" /\ broadcast = "running" => "clickedOver" \in mishaps
  /\ broadcast = "running" /\ Clean => ~signInButton.enabled /\ goLiveButton.visible
  /\ Posted("setOfflineUI") => "failed" \in mishaps

\* The dock will be told, or has been, that the output is down.
Told ==
  \/ mishaps \cap {"failed", "outputDown"} # {}
  \/ signals > 0
  \/ Posted("STREAMING_STOPPED")

OutputInv ==
  /\ uiPc = "start" \/ broadcast = "running" => (obs = "stopping" => Told)
  /\ broadcast = "running" => (obs = "idle" => Told)

IInv ==
  /\ TypeOK
  /\ MainInv
  /\ SignInv
  /\ ButtonsInv
  /\ OutputInv
  /\ LiveMeansEndShow
  /\ CredentialsGoneOnlyIf

-----------------------------------------------------------------------------
(* What is posted *)

LEMMA NothingPosted ==
  ASSUME queue' = queue, NEW x
  PROVE  Posted(x)' <=> Posted(x)
BY DEF Posted

LEMMA PostedOne ==
  ASSUME queue \in Seq(Posts), NEW call \in Posts, queue' = Append(queue, call), NEW x
  PROVE  /\ queue' \in Seq(Posts)
         /\ Posted(x)' <=> Posted(x) \/ x = call
BY DEF Posted

LEMMA PostedTwo ==
  ASSUME queue \in Seq(Posts), NEW c \in Posts, NEW d \in Posts, queue' = queue \o <<c, d>>, NEW x
  PROVE  /\ queue' \in Seq(Posts)
         /\ Posted(x)' <=> Posted(x) \/ x = c \/ x = d
<1>1. /\ DOMAIN queue = 1 .. Len(queue)
      /\ DOMAIN queue' = 1 .. Len(queue) + 2
      /\ \A i \in 1 .. Len(queue) : queue'[i] = queue[i]
      /\ queue'[Len(queue) + 1] = c /\ queue'[Len(queue) + 2] = d
      /\ queue' \in Seq(Posts)
  OBVIOUS
<1>2. Posted(x)' => Posted(x) \/ x = c \/ x = d
  <2> SUFFICES ASSUME NEW i \in DOMAIN queue', queue'[i] = x, x # c, x # d  PROVE Posted(x)
    BY DEF Posted
  <2> QED  BY <1>1 DEF Posted
<1>3. Posted(x) => Posted(x)'
  BY <1>1 DEF Posted
<1>4. Posted(c)' /\ Posted(d)'
  <2>1. Len(queue) + 1 \in DOMAIN queue' /\ Len(queue) + 2 \in DOMAIN queue'
    BY <1>1
  <2> QED  BY <1>1, <2>1 DEF Posted
<1> QED  BY <1>1, <1>2, <1>3, <1>4

LEMMA Delivered ==
  ASSUME queue \in Seq(Posts), queue # <<>>, queue' = Tail(queue), NEW x
  PROVE  /\ queue' \in Seq(Posts)
         /\ Head(queue) \in Posts
         /\ Posted(Head(queue))
         /\ Posted(x) <=> Posted(x)' \/ x = Head(queue)
<1>1. /\ Len(queue) \in Nat \ {0}
      /\ DOMAIN queue = 1 .. Len(queue)
      /\ DOMAIN queue' = 1 .. Len(queue) - 1
      /\ \A i \in 1 .. Len(queue) - 1 : queue'[i] = queue[i + 1]
      /\ Head(queue) = queue[1]
      /\ queue' \in Seq(Posts)
  OBVIOUS
<1>2. Posted(x) => Posted(x)' \/ x = Head(queue)
  <2> SUFFICES ASSUME NEW i \in DOMAIN queue, queue[i] = x, i # 1  PROVE Posted(x)'
    BY <1>1 DEF Posted
  <2>1. i - 1 \in DOMAIN queue' /\ queue'[i - 1] = x
    BY <1>1
  <2> QED  BY <2>1 DEF Posted
<1>3. Posted(x)' => Posted(x)
  BY <1>1 DEF Posted
<1>4. 1 \in DOMAIN queue /\ Head(queue) \in Posts /\ Posted(Head(queue))
  BY <1>1 DEF Posted
<1> QED  BY <1>1, <1>2, <1>3, <1>4 DEF Posted

-----------------------------------------------------------------------------
(* Every step keeps IInv *)

USE DEF vars, signIn, buttons, output, threads, ui

LEMMA InitInv == Init => IInv
<1> SUFFICES ASSUME Init PROVE IInv
  OBVIOUS
<1>1. \A x : ~Posted(x)
  BY DEF Init, Posted
<1>2. TypeOK
  <2>1. FlagsOK
    BY DEF Init, FlagsOK
  <2>2. signInButton \in SignInButtons
    <3>1. CASE signInButton = [enabled |-> TRUE, text |-> "SignIn"]
      BY <3>1 DEF SignInButtons
    <3>2. CASE signInButton = [enabled |-> TRUE, text |-> "SignOut"]
      BY <3>2 DEF SignInButtons
    <3> QED  BY <3>1, <3>2 DEF Init
  <2>3. goLiveButton \in GoLiveButtons
    <3>1. CASE goLiveButton \in [visible : BOOLEAN, enabled : BOOLEAN, text : {"GoLive"}]
      BY <3>1 DEF GoLiveButtons
    <3>2. CASE goLiveButton = [visible |-> TRUE, enabled |-> TRUE, text |-> "GoLive"]
      BY <3>2 DEF GoLiveButtons
    <3> QED  BY <3>1, <3>2 DEF Init
  <2>4. PlacesOK
    BY BoundsAssumption DEF Init, PlacesOK
  <2> QED  BY <2>1, <2>2, <2>3, <2>4 DEF TypeOK
<1>3. MainInv /\ SignInv
  BY DEF Init, MainInv, SignInv
<1>4. ButtonsInv /\ OutputInv
  BY <1>1 DEF Init, ButtonsInv, OutputInv
<1>5. LiveMeansEndShow /\ CredentialsGoneOnlyIf
  BY DEF Init, LiveMeansEndShow, CredentialsGoneOnlyIf
<1> QED  BY <1>2, <1>3, <1>4, <1>5 DEF IInv

\* Signing out of a running broadcast takes a failure or a second click on Go Live.
LEMMA LogoutInv ==
  ASSUME IInv, fault = "none", Logout
  PROVE  IInv'
<1> USE DEF Logout, Clickable, SetupSignedOutUI
<1>0. queue' = queue /\ \A x : Posted(x)' <=> Posted(x)
  BY NothingPosted
<1>1. TypeOK'
  <2>1. FlagsOK'
    BY DEF IInv, TypeOK, FlagsOK
  <2>2. signInButton' \in SignInButtons
    BY DEF IInv, TypeOK, SignInButtons
  <2>3. goLiveButton' \in GoLiveButtons
    BY DEF IInv, TypeOK, GoLiveButtons
  <2>4. PlacesOK'
    BY <1>0, BoundsAssumption DEF IInv, TypeOK, MainInv, PlacesOK, Mishaps
  <2> QED  BY <2>1, <2>2, <2>3, <2>4 DEF TypeOK
<1>2. MainInv' /\ SignInv'
  BY <1>0, BoundsAssumption DEF IInv, TypeOK, FlagsOK, PlacesOK, SignInButtons, MainInv, SignInv
<1>3. ButtonsInv'
  BY <1>0 DEF IInv, TypeOK, PlacesOK, SignInButtons, GoLiveButtons, MainInv, SignInv, ButtonsInv, Clean
<1>4. OutputInv'
  BY <1>0 DEF IInv, TypeOK, PlacesOK, MainInv, OutputInv, Told
<1>5. LiveMeansEndShow' /\ CredentialsGoneOnlyIf'
  BY <1>0 DEF IInv, TypeOK, PlacesOK, SignInButtons, GoLiveButtons, MainInv, SignInv, ButtonsInv, Clean,
              LiveMeansEndShow, CredentialsGoneOnlyIf
<1> QED  BY <1>1, <1>2, <1>3, <1>4, <1>5 DEF IInv

\* A refused sign-in changes no button; nobody who is signed in gets this far.
LEMMA LoginRefusedInv ==
  ASSUME IInv, fault = "none", LoginRefused
  PROVE  IInv'
<1> USE DEF LoginRefused, Clickable, CanLogIn
<1>0. queue' = queue /\ \A x : Posted(x)' <=> Posted(x)
  BY NothingPosted
<1>1. TypeOK'
  <2>1. FlagsOK'
    BY DEF IInv, TypeOK, FlagsOK
  <2>2. signInButton' \in SignInButtons
    BY DEF IInv, TypeOK, SignInButtons
  <2>3. goLiveButton' \in GoLiveButtons
    BY DEF IInv, TypeOK, GoLiveButtons
  <2>4. PlacesOK'
    BY <1>0, BoundsAssumption DEF IInv, TypeOK, MainInv, PlacesOK, Mishaps
  <2> QED  BY <2>1, <2>2, <2>3, <2>4 DEF TypeOK
<1>2. MainInv' /\ SignInv'
  BY <1>0, BoundsAssumption DEF IInv, TypeOK, FlagsOK, PlacesOK, SignInButtons, MainInv, SignInv
<1>3. ButtonsInv'
  BY <1>0 DEF IInv, TypeOK, PlacesOK, SignInButtons, GoLiveButtons, MainInv, SignInv, ButtonsInv, Clean
<1>4. OutputInv'
  BY <1>0 DEF IInv, TypeOK, PlacesOK, MainInv, OutputInv, Told
<1>5. LiveMeansEndShow' /\ CredentialsGoneOnlyIf'
  BY <1>0 DEF IInv, TypeOK, PlacesOK, SignInButtons, GoLiveButtons, MainInv, SignInv, ButtonsInv, Clean,
              LiveMeansEndShow, CredentialsGoneOnlyIf
<1> QED  BY <1>1, <1>2, <1>3, <1>4, <1>5 DEF IInv

\* Signing in takes a signed-out user and no broadcast.
LEMMA LoginSucceedsInv ==
  ASSUME IInv, fault = "none", LoginSucceeds
  PROVE  IInv'
<1> USE DEF LoginSucceeds, Clickable, CanLogIn, SetupSignedInUI
<1>0. queue' = queue /\ \A x : Posted(x)' <=> Posted(x)
  BY NothingPosted
<1>1. TypeOK'
  <2>1. FlagsOK'
    BY DEF IInv, TypeOK, FlagsOK
  <2>2. signInButton' \in SignInButtons
    BY DEF IInv, TypeOK, SignInButtons
  <2>3. goLiveButton' \in GoLiveButtons
    BY DEF IInv, TypeOK, GoLiveButtons
  <2>4. PlacesOK'
    BY <1>0, BoundsAssumption DEF IInv, TypeOK, MainInv, PlacesOK, Mishaps
  <2> QED  BY <2>1, <2>2, <2>3, <2>4 DEF TypeOK
<1>2. MainInv' /\ SignInv'
  BY <1>0, BoundsAssumption DEF IInv, TypeOK, FlagsOK, PlacesOK, SignInButtons, MainInv, SignInv
<1>3. ButtonsInv'
  BY <1>0 DEF IInv, TypeOK, PlacesOK, SignInButtons, GoLiveButtons, MainInv, SignInv, ButtonsInv, Clean
<1>4. OutputInv'
  BY <1>0 DEF IInv, TypeOK, PlacesOK, MainInv, OutputInv, Told
<1>5. LiveMeansEndShow' /\ CredentialsGoneOnlyIf'
  BY <1>0 DEF IInv, TypeOK, PlacesOK, SignInButtons, GoLiveButtons, MainInv, SignInv, ButtonsInv, Clean,
              LiveMeansEndShow, CredentialsGoneOnlyIf
<1> QED  BY <1>1, <1>2, <1>3, <1>4, <1>5 DEF IInv

\* As does failing to: a broadcast's buttons are left alone.
LEMMA LoginFailsInv ==
  ASSUME IInv, fault = "none", LoginFails
  PROVE  IInv'
<1> USE DEF LoginFails, Clickable, CanLogIn, SetupSignedOutUI
<1>0. queue' = queue /\ \A x : Posted(x)' <=> Posted(x)
  BY NothingPosted
<1>1. TypeOK'
  <2>1. FlagsOK'
    BY DEF IInv, TypeOK, FlagsOK
  <2>2. signInButton' \in SignInButtons
    <3>1. CASE UNCHANGED signInButton
      BY <3>1 DEF IInv, TypeOK
    <3>2. CASE signInButton' = [enabled |-> TRUE, text |-> "SignIn"]
      BY <3>2 DEF SignInButtons
    <3>3. CASE signInButton' = [enabled |-> FALSE, text |-> "Continue"]
      BY <3>3 DEF SignInButtons
    <3>4. CASE signInButton' = [signInButton EXCEPT !.enabled = FALSE]
      BY <3>4 DEF IInv, TypeOK, SignInButtons
    <3> QED  BY <3>1, <3>2, <3>3, <3>4
  <2>3. goLiveButton' \in GoLiveButtons
    BY DEF IInv, TypeOK, GoLiveButtons
  <2>4. PlacesOK'
    BY <1>0, BoundsAssumption DEF IInv, TypeOK, MainInv, PlacesOK, Mishaps
  <2> QED  BY <2>1, <2>2, <2>3, <2>4 DEF TypeOK
<1>2. MainInv' /\ SignInv'
  BY <1>0, BoundsAssumption DEF IInv, TypeOK, FlagsOK, PlacesOK, SignInButtons, MainInv, SignInv
<1>3. ButtonsInv'
  BY <1>0 DEF IInv, TypeOK, PlacesOK, SignInButtons, GoLiveButtons, MainInv, SignInv, ButtonsInv, Clean
<1>4. OutputInv'
  BY <1>0 DEF IInv, TypeOK, PlacesOK, MainInv, OutputInv, Told
<1>5. LiveMeansEndShow' /\ CredentialsGoneOnlyIf'
  BY <1>0 DEF IInv, TypeOK, PlacesOK, SignInButtons, GoLiveButtons, MainInv, SignInv, ButtonsInv, Clean,
              LiveMeansEndShow, CredentialsGoneOnlyIf
<1> QED  BY <1>1, <1>2, <1>3, <1>4, <1>5 DEF IInv

\* A password is typed by who is signed out, so under no broadcast that is clean.
LEMMA TypeOtpInv ==
  ASSUME IInv, fault = "none", TypeOtp
  PROVE  IInv'
<1> USE DEF TypeOtp, Clickable
<1>0. queue' = queue /\ \A x : Posted(x)' <=> Posted(x)
  BY NothingPosted
<1>1. TypeOK'
  <2>1. FlagsOK'
    BY DEF IInv, TypeOK, FlagsOK
  <2>2. signInButton' \in SignInButtons
    BY DEF IInv, TypeOK, SignInButtons
  <2>3. goLiveButton' \in GoLiveButtons
    BY DEF IInv, TypeOK, GoLiveButtons
  <2>4. PlacesOK'
    BY <1>0, BoundsAssumption DEF IInv, TypeOK, MainInv, PlacesOK, Mishaps
  <2> QED  BY <2>1, <2>2, <2>3, <2>4 DEF TypeOK
<1>2. MainInv' /\ SignInv'
  BY <1>0, BoundsAssumption DEF IInv, TypeOK, FlagsOK, PlacesOK, SignInButtons, MainInv, SignInv
<1>3. ButtonsInv'
  BY <1>0 DEF IInv, TypeOK, PlacesOK, SignInButtons, GoLiveButtons, MainInv, SignInv, ButtonsInv, Clean
<1>4. OutputInv'
  BY <1>0 DEF IInv, TypeOK, PlacesOK, MainInv, OutputInv, Told
<1>5. LiveMeansEndShow' /\ CredentialsGoneOnlyIf'
  BY <1>0 DEF IInv, TypeOK, PlacesOK, SignInButtons, GoLiveButtons, MainInv, SignInv, ButtonsInv, Clean,
              LiveMeansEndShow, CredentialsGoneOnlyIf
<1> QED  BY <1>1, <1>2, <1>3, <1>4, <1>5 DEF IInv

\* Either the show is ended, or a running broadcast is marked as clicked over.
LEMMA ClickGoLiveInv ==
  ASSUME IInv, fault = "none", ClickGoLive
  PROVE  IInv'
<1> USE DEF ClickGoLive, Clickable, StreamingActive, StopOutput, EndBroadcast, SetOfflineUI
<1>0. queue' = queue /\ \A x : Posted(x)' <=> Posted(x)
  BY NothingPosted
<1>1. TypeOK'
  <2>1. FlagsOK'
    BY DEF IInv, TypeOK, FlagsOK
  <2>2. signInButton' \in SignInButtons
    BY DEF IInv, TypeOK, SignInButtons
  <2>3. goLiveButton' \in GoLiveButtons
    BY DEF IInv, TypeOK, GoLiveButtons
  <2>4. PlacesOK'
    BY <1>0, BoundsAssumption DEF IInv, TypeOK, MainInv, PlacesOK, Mishaps
  <2> QED  BY <2>1, <2>2, <2>3, <2>4 DEF TypeOK
<1>2. MainInv' /\ SignInv'
  BY <1>0, BoundsAssumption DEF IInv, TypeOK, FlagsOK, PlacesOK, SignInButtons, MainInv, SignInv
<1>3. ButtonsInv'
  BY <1>0 DEF IInv, TypeOK, PlacesOK, SignInButtons, GoLiveButtons, MainInv, SignInv, ButtonsInv, Clean
<1>4. OutputInv'
  BY <1>0 DEF IInv, TypeOK, PlacesOK, MainInv, OutputInv, Told
<1>5. LiveMeansEndShow' /\ CredentialsGoneOnlyIf'
  BY <1>0 DEF IInv, TypeOK, PlacesOK, SignInButtons, GoLiveButtons, MainInv, SignInv, ButtonsInv, Clean,
              LiveMeansEndShow, CredentialsGoneOnlyIf
<1> QED  BY <1>1, <1>2, <1>3, <1>4, <1>5 DEF IInv

\* The dock that quits joins what OBS is streaming, and is gone.
LEMMA QuitInv ==
  ASSUME IInv, fault = "none", Quit
  PROVE  IInv'
<1> USE DEF Quit, Clickable, StreamingActive, StopOutput, EndBroadcast
<1>0. queue' = queue /\ \A x : Posted(x)' <=> Posted(x)
  BY NothingPosted
<1>1. TypeOK'
  <2>1. FlagsOK'
    BY DEF IInv, TypeOK, FlagsOK
  <2>2. signInButton' \in SignInButtons
    BY DEF IInv, TypeOK, SignInButtons
  <2>3. goLiveButton' \in GoLiveButtons
    BY DEF IInv, TypeOK, GoLiveButtons
  <2>4. PlacesOK'
    BY <1>0, BoundsAssumption DEF IInv, TypeOK, MainInv, PlacesOK, Mishaps
  <2> QED  BY <2>1, <2>2, <2>3, <2>4 DEF TypeOK
<1>2. MainInv' /\ SignInv'
  BY <1>0, BoundsAssumption DEF IInv, TypeOK, FlagsOK, PlacesOK, SignInButtons, MainInv, SignInv
<1>3. ButtonsInv'
  BY <1>0 DEF IInv, TypeOK, PlacesOK, SignInButtons, GoLiveButtons, MainInv, SignInv, ButtonsInv, Clean
<1>4. OutputInv'
  BY <1>0 DEF IInv, TypeOK, PlacesOK, MainInv, OutputInv, Told
<1>5. LiveMeansEndShow' /\ CredentialsGoneOnlyIf'
  BY <1>0 DEF IInv, TypeOK, PlacesOK, SignInButtons, GoLiveButtons, MainInv, SignInv, ButtonsInv, Clean,
              LiveMeansEndShow, CredentialsGoneOnlyIf
<1> QED  BY <1>1, <1>2, <1>3, <1>4, <1>5 DEF IInv

\* The buttons stay as the click has left them.
LEMMA OverlookInv ==
  ASSUME IInv, fault = "none", Overlook
  PROVE  IInv'
<1> USE DEF Overlook, StreamingActive
<1>0. queue' = queue /\ \A x : Posted(x)' <=> Posted(x)
  BY NothingPosted
<1>1. TypeOK'
  <2>1. FlagsOK'
    BY DEF IInv, TypeOK, FlagsOK
  <2>2. signInButton' \in SignInButtons
    BY DEF IInv, TypeOK, SignInButtons
  <2>3. goLiveButton' \in GoLiveButtons
    BY DEF IInv, TypeOK, GoLiveButtons
  <2>4. PlacesOK'
    BY <1>0, BoundsAssumption DEF IInv, TypeOK, MainInv, PlacesOK, Mishaps
  <2> QED  BY <2>1, <2>2, <2>3, <2>4 DEF TypeOK
<1>2. MainInv' /\ SignInv'
  BY <1>0, BoundsAssumption DEF IInv, TypeOK, FlagsOK, PlacesOK, SignInButtons, MainInv, SignInv
<1>3. ButtonsInv'
  BY <1>0 DEF IInv, TypeOK, PlacesOK, SignInButtons, GoLiveButtons, MainInv, SignInv, ButtonsInv, Clean
<1>4. OutputInv'
  BY <1>0 DEF IInv, TypeOK, PlacesOK, MainInv, OutputInv, Told
<1>5. LiveMeansEndShow' /\ CredentialsGoneOnlyIf'
  BY <1>0 DEF IInv, TypeOK, PlacesOK, SignInButtons, GoLiveButtons, MainInv, SignInv, ButtonsInv, Clean,
              LiveMeansEndShow, CredentialsGoneOnlyIf
<1> QED  BY <1>1, <1>2, <1>3, <1>4, <1>5 DEF IInv

\* The buttons come back; a broadcast that runs was clicked over.
LEMMA CannotFeedInv ==
  ASSUME IInv, fault = "none", CannotFeed
  PROVE  IInv'
<1> USE DEF CannotFeed, StreamingActive, SetOfflineUI
<1>0. queue' = queue /\ \A x : Posted(x)' <=> Posted(x)
  BY NothingPosted
<1>1. TypeOK'
  <2>1. FlagsOK'
    BY DEF IInv, TypeOK, FlagsOK
  <2>2. signInButton' \in SignInButtons
    BY DEF IInv, TypeOK, SignInButtons
  <2>3. goLiveButton' \in GoLiveButtons
    BY DEF IInv, TypeOK, GoLiveButtons
  <2>4. PlacesOK'
    BY <1>0, BoundsAssumption DEF IInv, TypeOK, MainInv, PlacesOK, Mishaps
  <2> QED  BY <2>1, <2>2, <2>3, <2>4 DEF TypeOK
<1>2. MainInv' /\ SignInv'
  BY <1>0, BoundsAssumption DEF IInv, TypeOK, FlagsOK, PlacesOK, SignInButtons, MainInv, SignInv
<1>3. ButtonsInv'
  BY <1>0 DEF IInv, TypeOK, PlacesOK, SignInButtons, GoLiveButtons, MainInv, SignInv, ButtonsInv, Clean
<1>4. OutputInv'
  BY <1>0 DEF IInv, TypeOK, PlacesOK, MainInv, OutputInv, Told
<1>5. LiveMeansEndShow' /\ CredentialsGoneOnlyIf'
  BY <1>0 DEF IInv, TypeOK, PlacesOK, SignInButtons, GoLiveButtons, MainInv, SignInv, ButtonsInv, Clean,
              LiveMeansEndShow, CredentialsGoneOnlyIf
<1> QED  BY <1>1, <1>2, <1>3, <1>4, <1>5 DEF IInv

\* The new broadcast has failed already if the dock is about to be told so.
LEMMA CreateSrtFeedInv ==
  ASSUME IInv, fault = "none", CreateSrtFeed
  PROVE  IInv'
<1> USE DEF CreateSrtFeed, StreamingActive, SetOfflineUI
<1>0. queue' = queue /\ \A x : Posted(x)' <=> Posted(x)
  BY NothingPosted
<1>1. TypeOK'
  <2>1. FlagsOK'
    BY DEF IInv, TypeOK, FlagsOK
  <2>2. signInButton' \in SignInButtons
    BY DEF IInv, TypeOK, SignInButtons
  <2>3. goLiveButton' \in GoLiveButtons
    BY DEF IInv, TypeOK, GoLiveButtons
  <2>4. PlacesOK'
    BY <1>0, BoundsAssumption DEF IInv, TypeOK, MainInv, PlacesOK, Mishaps
  <2> QED  BY <2>1, <2>2, <2>3, <2>4 DEF TypeOK
<1>2. MainInv' /\ SignInv'
  BY <1>0, BoundsAssumption DEF IInv, TypeOK, FlagsOK, PlacesOK, SignInButtons, MainInv, SignInv
<1>3. ButtonsInv'
  BY <1>0 DEF IInv, TypeOK, PlacesOK, SignInButtons, GoLiveButtons, MainInv, SignInv, ButtonsInv, Clean
<1>4. OutputInv'
  BY <1>0 DEF IInv, TypeOK, PlacesOK, MainInv, OutputInv, Told
<1>5. LiveMeansEndShow' /\ CredentialsGoneOnlyIf'
  BY <1>0 DEF IInv, TypeOK, PlacesOK, SignInButtons, GoLiveButtons, MainInv, SignInv, ButtonsInv, Clean,
              LiveMeansEndShow, CredentialsGoneOnlyIf
<1> QED  BY <1>1, <1>2, <1>3, <1>4, <1>5 DEF IInv

\* It starts with an output that is active, on its way, or known to be down.
LEMMA StartShowInv ==
  ASSUME IInv, fault = "none", StartShow
  PROVE  IInv'
<1> USE DEF StartShow, StartOutput
<1>0. queue' = queue /\ \A x : Posted(x)' <=> Posted(x)
  BY NothingPosted
<1>1. TypeOK'
  <2>1. FlagsOK'
    BY DEF IInv, TypeOK, FlagsOK
  <2>2. signInButton' \in SignInButtons
    BY DEF IInv, TypeOK, SignInButtons
  <2>3. goLiveButton' \in GoLiveButtons
    BY DEF IInv, TypeOK, GoLiveButtons
  <2>4. PlacesOK'
    BY <1>0, BoundsAssumption DEF IInv, TypeOK, MainInv, PlacesOK, Mishaps
  <2> QED  BY <2>1, <2>2, <2>3, <2>4 DEF TypeOK
<1>2. MainInv' /\ SignInv'
  BY <1>0, BoundsAssumption DEF IInv, TypeOK, FlagsOK, PlacesOK, SignInButtons, MainInv, SignInv
<1>3. ButtonsInv'
  BY <1>0 DEF IInv, TypeOK, PlacesOK, SignInButtons, GoLiveButtons, MainInv, SignInv, ButtonsInv, Clean
<1>4. OutputInv'
  BY <1>0 DEF IInv, TypeOK, PlacesOK, MainInv, OutputInv, Told
<1>5. LiveMeansEndShow' /\ CredentialsGoneOnlyIf'
  BY <1>0 DEF IInv, TypeOK, PlacesOK, SignInButtons, GoLiveButtons, MainInv, SignInv, ButtonsInv, Clean,
              LiveMeansEndShow, CredentialsGoneOnlyIf
<1> QED  BY <1>1, <1>2, <1>3, <1>4, <1>5 DEF IInv

\* No broadcast is left when stop() has returned.
LEMMA JoinInv ==
  ASSUME IInv, fault = "none", Join
  PROVE  IInv'
<1> USE DEF Join, Callbacks!StopReturns, SetOfflineUI, StopOutput
<1>0. queue' = queue /\ \A x : Posted(x)' <=> Posted(x)
  BY NothingPosted
<1>1. TypeOK'
  <2>1. FlagsOK'
    BY DEF IInv, TypeOK, FlagsOK
  <2>2. signInButton' \in SignInButtons
    BY DEF IInv, TypeOK, SignInButtons
  <2>3. goLiveButton' \in GoLiveButtons
    BY DEF IInv, TypeOK, GoLiveButtons
  <2>4. PlacesOK'
    BY <1>0, BoundsAssumption DEF IInv, TypeOK, MainInv, PlacesOK, Mishaps
  <2> QED  BY <2>1, <2>2, <2>3, <2>4 DEF TypeOK
<1>2. MainInv' /\ SignInv'
  BY <1>0, BoundsAssumption DEF IInv, TypeOK, FlagsOK, PlacesOK, SignInButtons, MainInv, SignInv
<1>3. ButtonsInv'
  BY <1>0 DEF IInv, TypeOK, PlacesOK, SignInButtons, GoLiveButtons, MainInv, SignInv, ButtonsInv, Clean
<1>4. OutputInv'
  BY <1>0 DEF IInv, TypeOK, PlacesOK, MainInv, OutputInv, Told
<1>5. LiveMeansEndShow' /\ CredentialsGoneOnlyIf'
  BY <1>0 DEF IInv, TypeOK, PlacesOK, SignInButtons, GoLiveButtons, MainInv, SignInv, ButtonsInv, Clean,
              LiveMeansEndShow, CredentialsGoneOnlyIf
<1> QED  BY <1>1, <1>2, <1>3, <1>4, <1>5 DEF IInv

\* What is delivered is no longer posted: to go offline there was a failure, to
\* stop being told the output is down the broadcast is ended.
LEMMA HandlePostInv ==
  ASSUME IInv, fault = "none", HandlePost
  PROVE  IInv'
<1> USE DEF HandlePost, SetStreamingUI, SetOfflineUI, StopOutput, StopCaffeineStream, EndBroadcast
<1>0. /\ queue' \in Seq(Posts)
      /\ Head(queue) \in Posts
      /\ Posted(Head(queue))
      /\ \A x : Posted(x) <=> Posted(x)' \/ x = Head(queue)
  BY Delivered DEF IInv, TypeOK, PlacesOK
<1>1. TypeOK'
  <2>1. FlagsOK'
    BY DEF IInv, TypeOK, FlagsOK
  <2>2. signInButton' \in SignInButtons
    BY DEF IInv, TypeOK, SignInButtons
  <2>3. goLiveButton' \in GoLiveButtons
    BY DEF IInv, TypeOK, GoLiveButtons
  <2>4. PlacesOK'
    BY <1>0, BoundsAssumption DEF IInv, TypeOK, MainInv, PlacesOK, Mishaps
  <2> QED  BY <2>1, <2>2, <2>3, <2>4 DEF TypeOK
<1>2. MainInv' /\ SignInv'
  BY <1>0, BoundsAssumption DEF IInv, TypeOK, FlagsOK, PlacesOK, SignInButtons, MainInv, SignInv
<1>3. ButtonsInv'
  BY <1>0 DEF IInv, TypeOK, PlacesOK, SignInButtons, GoLiveButtons, MainInv, SignInv, ButtonsInv, Clean
<1>4. OutputInv'
  BY <1>0 DEF IInv, TypeOK, PlacesOK, MainInv, OutputInv, Told
<1>5. LiveMeansEndShow' /\ CredentialsGoneOnlyIf'
  BY <1>0 DEF IInv, TypeOK, PlacesOK, SignInButtons, GoLiveButtons, MainInv, SignInv, ButtonsInv, Clean,
              LiveMeansEndShow, CredentialsGoneOnlyIf
<1> QED  BY <1>1, <1>2, <1>3, <1>4, <1>5 DEF IInv

\* A live broadcast has its setStreamingUI posted.
LEMMA StreamStartedInv ==
  ASSUME IInv, fault = "none", UNCHANGED <<signIn, buttons, output, ui>>, StreamStarted
  PROVE  IInv'
<1> USE DEF StreamStarted, Callbacks!CallStarted
<1>0. /\ queue' \in Seq(Posts)
      /\ \A x : Posted(x) => Posted(x)'
      /\ \A x : Posted(x)' => Posted(x) \/ x = "setStreamingUI"
      /\ uiPc # "gone" => Posted("setStreamingUI")'
  BY NothingPosted, PostedOne DEF IInv, TypeOK, PlacesOK, Posts
<1>1. TypeOK'
  <2>1. FlagsOK'
    BY DEF IInv, TypeOK, FlagsOK
  <2>2. signInButton' \in SignInButtons
    BY DEF IInv, TypeOK, SignInButtons
  <2>3. goLiveButton' \in GoLiveButtons
    BY DEF IInv, TypeOK, GoLiveButtons
  <2>4. PlacesOK'
    BY <1>0, BoundsAssumption DEF IInv, TypeOK, MainInv, PlacesOK, Mishaps
  <2> QED  BY <2>1, <2>2, <2>3, <2>4 DEF TypeOK
<1>2. MainInv' /\ SignInv'
  BY <1>0, BoundsAssumption DEF IInv, TypeOK, FlagsOK, PlacesOK, SignInButtons, MainInv, SignInv
<1>3. ButtonsInv'
  BY <1>0 DEF IInv, TypeOK, PlacesOK, SignInButtons, GoLiveButtons, MainInv, SignInv, ButtonsInv, Clean
<1>4. OutputInv'
  BY <1>0 DEF IInv, TypeOK, PlacesOK, MainInv, OutputInv, Told
<1>5. LiveMeansEndShow' /\ CredentialsGoneOnlyIf'
  BY <1>0 DEF IInv, TypeOK, PlacesOK, SignInButtons, GoLiveButtons, MainInv, SignInv, ButtonsInv, Clean,
              LiveMeansEndShow, CredentialsGoneOnlyIf
<1> QED  BY <1>1, <1>2, <1>3, <1>4, <1>5 DEF IInv

\* What a failure posts.
LEMMA FailurePosts ==
  ASSUME TypeOK, StreamFailed
  PROVE  /\ queue' \in Seq(Posts)
         /\ \A x : Posted(x) => Posted(x)'
         /\ \A x : Posted(x)' => Posted(x) \/ x \in {"StopStreaming", "setOfflineUI"}
BY NothingPosted, PostedTwo DEF StreamFailed, TypeOK, PlacesOK, Posts

\* A failure is recorded whoever has it.
LEMMA WorkerFailsInv ==
  ASSUME IInv, fault = "none", UNCHANGED <<signIn, buttons, output, ui>>, WorkerFails
  PROVE  IInv'
<1> USE DEF WorkerFails, StreamFailed, Callbacks!WorkerFails
<1>0. /\ queue' \in Seq(Posts)
      /\ \A x : Posted(x) => Posted(x)'
      /\ \A x : Posted(x)' => Posted(x) \/ x \in {"StopStreaming", "setOfflineUI"}
  BY FailurePosts DEF IInv
<1>1. TypeOK'
  <2>1. FlagsOK'
    BY DEF IInv, TypeOK, FlagsOK
  <2>2. signInButton' \in SignInButtons
    BY DEF IInv, TypeOK, SignInButtons
  <2>3. goLiveButton' \in GoLiveButtons
    BY DEF IInv, TypeOK, GoLiveButtons
  <2>4. PlacesOK'
    BY <1>0, BoundsAssumption DEF IInv, TypeOK, MainInv, PlacesOK, Mishaps
  <2> QED  BY <2>1, <2>2, <2>3, <2>4 DEF TypeOK
<1>2. MainInv' /\ SignInv'
  BY <1>0, BoundsAssumption DEF IInv, TypeOK, FlagsOK, PlacesOK, SignInButtons, MainInv, SignInv
<1>3. ButtonsInv'
  BY <1>0 DEF IInv, TypeOK, PlacesOK, SignInButtons, GoLiveButtons, MainInv, SignInv, ButtonsInv, Clean
<1>4. OutputInv'
  BY <1>0 DEF IInv, TypeOK, PlacesOK, MainInv, OutputInv, Told
<1>5. LiveMeansEndShow' /\ CredentialsGoneOnlyIf'
  BY <1>0 DEF IInv, TypeOK, PlacesOK, SignInButtons, GoLiveButtons, MainInv, SignInv, ButtonsInv, Clean,
              LiveMeansEndShow, CredentialsGoneOnlyIf
<1> QED  BY <1>1, <1>2, <1>3, <1>4, <1>5 DEF IInv

\* The same of the websocket thread, of this broadcast or the last.
LEMMA SubscriptionFailsInv ==
  ASSUME IInv, fault = "none", UNCHANGED <<signIn, buttons, output, ui>>, SubscriptionFails
  PROVE  IInv'
<1> USE DEF SubscriptionFails, StreamFailed, Callbacks!SubscriptionFails, Callbacks!LateFailure
<1>0. /\ queue' \in Seq(Posts)
      /\ \A x : Posted(x) => Posted(x)'
      /\ \A x : Posted(x)' => Posted(x) \/ x \in {"StopStreaming", "setOfflineUI"}
  BY FailurePosts DEF IInv
<1>1. TypeOK'
  <2>1. FlagsOK'
    BY DEF IInv, TypeOK, FlagsOK
  <2>2. signInButton' \in SignInButtons
    BY DEF IInv, TypeOK, SignInButtons
  <2>3. goLiveButton' \in GoLiveButtons
    BY DEF IInv, TypeOK, GoLiveButtons
  <2>4. PlacesOK'
    BY <1>0, BoundsAssumption DEF IInv, TypeOK, MainInv, PlacesOK, Mishaps
  <2> QED  BY <2>1, <2>2, <2>3, <2>4 DEF TypeOK
<1>2. MainInv' /\ SignInv'
  BY <1>0, BoundsAssumption DEF IInv, TypeOK, FlagsOK, PlacesOK, SignInButtons, MainInv, SignInv
<1>3. ButtonsInv'
  BY <1>0 DEF IInv, TypeOK, PlacesOK, SignInButtons, GoLiveButtons, MainInv, SignInv, ButtonsInv, Clean
<1>4. OutputInv'
  BY <1>0 DEF IInv, TypeOK, PlacesOK, MainInv, OutputInv, Told
<1>5. LiveMeansEndShow' /\ CredentialsGoneOnlyIf'
  BY <1>0 DEF IInv, TypeOK, PlacesOK, SignInButtons, GoLiveButtons, MainInv, SignInv, ButtonsInv, Clean,
              LiveMeansEndShow, CredentialsGoneOnlyIf
<1> QED  BY <1>1, <1>2, <1>3, <1>4, <1>5 DEF IInv

\* Nothing but the worker or the leftover handler moves.
LEMMA SilentInv ==
  ASSUME IInv, fault = "none", UNCHANGED <<signIn, buttons, output, ui>>, Silent
  PROVE  IInv'
<1> USE DEF Silent, Callbacks!WorkerGoesLive, Callbacks!WorkerStops, Callbacks!LateEnds
<1>0. queue' = queue /\ \A x : Posted(x)' <=> Posted(x)
  BY NothingPosted
<1>1. TypeOK'
  <2>1. FlagsOK'
    BY DEF IInv, TypeOK, FlagsOK
  <2>2. signInButton' \in SignInButtons
    BY DEF IInv, TypeOK, SignInButtons
  <2>3. goLiveButton' \in GoLiveButtons
    BY DEF IInv, TypeOK, GoLiveButtons
  <2>4. PlacesOK'
    BY <1>0, BoundsAssumption DEF IInv, TypeOK, MainInv, PlacesOK, Mishaps
  <2> QED  BY <2>1, <2>2, <2>3, <2>4 DEF TypeOK
<1>2. MainInv' /\ SignInv'
  BY <1>0, BoundsAssumption DEF IInv, TypeOK, FlagsOK, PlacesOK, SignInButtons, MainInv, SignInv
<1>3. ButtonsInv'
  BY <1>0 DEF IInv, TypeOK, PlacesOK, SignInButtons, GoLiveButtons, MainInv, SignInv, ButtonsInv, Clean
<1>4. OutputInv'
  BY <1>0 DEF IInv, TypeOK, PlacesOK, MainInv, OutputInv, Told
<1>5. LiveMeansEndShow' /\ CredentialsGoneOnlyIf'
  BY <1>0 DEF IInv, TypeOK, PlacesOK, SignInButtons, GoLiveButtons, MainInv, SignInv, ButtonsInv, Clean,
              LiveMeansEndShow, CredentialsGoneOnlyIf
<1> QED  BY <1>1, <1>2, <1>3, <1>4, <1>5 DEF IInv

\* There is room for the signal of an output that starts,
LEMMA ObsStartsInv ==
  ASSUME IInv, fault = "none", UNCHANGED <<signIn, buttons, ui, threads, mishaps, fault>>, ObsStarts
  PROVE  IInv'
<1> USE DEF ObsStarts, Clickable
<1>0. queue' = queue /\ \A x : Posted(x)' <=> Posted(x)
  BY NothingPosted
<1>1. TypeOK'
  <2>1. FlagsOK'
    BY DEF IInv, TypeOK, FlagsOK
  <2>2. signInButton' \in SignInButtons
    BY DEF IInv, TypeOK, SignInButtons
  <2>3. goLiveButton' \in GoLiveButtons
    BY DEF IInv, TypeOK, GoLiveButtons
  <2>4. PlacesOK'
    BY <1>0, BoundsAssumption DEF IInv, TypeOK, MainInv, PlacesOK, Mishaps
  <2> QED  BY <2>1, <2>2, <2>3, <2>4 DEF TypeOK
<1>2. MainInv' /\ SignInv'
  BY <1>0, BoundsAssumption DEF IInv, TypeOK, FlagsOK, PlacesOK, SignInButtons, MainInv, SignInv
<1>3. ButtonsInv'
  BY <1>0 DEF IInv, TypeOK, PlacesOK, SignInButtons, GoLiveButtons, MainInv, SignInv, ButtonsInv, Clean
<1>4. OutputInv'
  BY <1>0 DEF IInv, TypeOK, PlacesOK, MainInv, OutputInv, Told
<1>5. LiveMeansEndShow' /\ CredentialsGoneOnlyIf'
  BY <1>0 DEF IInv, TypeOK, PlacesOK, SignInButtons, GoLiveButtons, MainInv, SignInv, ButtonsInv, Clean,
              LiveMeansEndShow, CredentialsGoneOnlyIf
<1> QED  BY <1>1, <1>2, <1>3, <1>4, <1>5 DEF IInv

\* that connects,
LEMMA ObsConnectsInv ==
  ASSUME IInv, fault = "none", UNCHANGED <<signIn, buttons, ui, threads, mishaps, fault>>, ObsConnects
  PROVE  IInv'
<1> USE DEF ObsConnects
<1>0. queue' = queue /\ \A x : Posted(x)' <=> Posted(x)
  BY NothingPosted
<1>1. TypeOK'
  <2>1. FlagsOK'
    BY DEF IInv, TypeOK, FlagsOK
  <2>2. signInButton' \in SignInButtons
    BY DEF IInv, TypeOK, SignInButtons
  <2>3. goLiveButton' \in GoLiveButtons
    BY DEF IInv, TypeOK, GoLiveButtons
  <2>4. PlacesOK'
    BY <1>0, BoundsAssumption DEF IInv, TypeOK, MainInv, PlacesOK, Mishaps
  <2> QED  BY <2>1, <2>2, <2>3, <2>4 DEF TypeOK
<1>2. MainInv' /\ SignInv'
  BY <1>0, BoundsAssumption DEF IInv, TypeOK, FlagsOK, PlacesOK, SignInButtons, MainInv, SignInv
<1>3. ButtonsInv'
  BY <1>0 DEF IInv, TypeOK, PlacesOK, SignInButtons, GoLiveButtons, MainInv, SignInv, ButtonsInv, Clean
<1>4. OutputInv'
  BY <1>0 DEF IInv, TypeOK, PlacesOK, MainInv, OutputInv, Told
<1>5. LiveMeansEndShow' /\ CredentialsGoneOnlyIf'
  BY <1>0 DEF IInv, TypeOK, PlacesOK, SignInButtons, GoLiveButtons, MainInv, SignInv, ButtonsInv, Clean,
              LiveMeansEndShow, CredentialsGoneOnlyIf
<1> QED  BY <1>1, <1>2, <1>3, <1>4, <1>5 DEF IInv

\* and that ends: it owes the signal.
LEMMA ObsEndsInv ==
  ASSUME IInv, fault = "none", UNCHANGED <<signIn, buttons, ui, threads, mishaps, fault>>, ObsEnds
  PROVE  IInv'
<1> USE DEF ObsEnds
<1>0. queue' = queue /\ \A x : Posted(x)' <=> Posted(x)
  BY NothingPosted
<1>1. TypeOK'
  <2>1. FlagsOK'
    BY DEF IInv, TypeOK, FlagsOK
  <2>2. signInButton' \in SignInButtons
    BY DEF IInv, TypeOK, SignInButtons
  <2>3. goLiveButton' \in GoLiveButtons
    BY DEF IInv, TypeOK, GoLiveButtons
  <2>4. PlacesOK'
    BY <1>0, BoundsAssumption DEF IInv, TypeOK, MainInv, PlacesOK, Mishaps
  <2> QED  BY <2>1, <2>2, <2>3, <2>4 DEF TypeOK
<1>2. MainInv' /\ SignInv'
  BY <1>0, BoundsAssumption DEF IInv, TypeOK, FlagsOK, PlacesOK, SignInButtons, MainInv, SignInv
<1>3. ButtonsInv'
  BY <1>0 DEF IInv, TypeOK, PlacesOK, SignInButtons, GoLiveButtons, MainInv, SignInv, ButtonsInv, Clean
<1>4. OutputInv'
  BY <1>0 DEF IInv, TypeOK, PlacesOK, MainInv, OutputInv, Told
<1>5. LiveMeansEndShow' /\ CredentialsGoneOnlyIf'
  BY <1>0 DEF IInv, TypeOK, PlacesOK, SignInButtons, GoLiveButtons, MainInv, SignInv, ButtonsInv, Clean,
              LiveMeansEndShow, CredentialsGoneOnlyIf
<1> QED  BY <1>1, <1>2, <1>3, <1>4, <1>5 DEF IInv

\* An output that was stopping has told, or will.
LEMMA ObsInactiveInv ==
  ASSUME IInv, fault = "none", UNCHANGED <<signIn, buttons, ui, threads, mishaps, fault>>, ObsInactive
  PROVE  IInv'
<1> USE DEF ObsInactive
<1>0. queue' = queue /\ \A x : Posted(x)' <=> Posted(x)
  BY NothingPosted
<1>1. TypeOK'
  <2>1. FlagsOK'
    BY DEF IInv, TypeOK, FlagsOK
  <2>2. signInButton' \in SignInButtons
    BY DEF IInv, TypeOK, SignInButtons
  <2>3. goLiveButton' \in GoLiveButtons
    BY DEF IInv, TypeOK, GoLiveButtons
  <2>4. PlacesOK'
    BY <1>0, BoundsAssumption DEF IInv, TypeOK, MainInv, PlacesOK, Mishaps
  <2> QED  BY <2>1, <2>2, <2>3, <2>4 DEF TypeOK
<1>2. MainInv' /\ SignInv'
  BY <1>0, BoundsAssumption DEF IInv, TypeOK, FlagsOK, PlacesOK, SignInButtons, MainInv, SignInv
<1>3. ButtonsInv'
  BY <1>0 DEF IInv, TypeOK, PlacesOK, SignInButtons, GoLiveButtons, MainInv, SignInv, ButtonsInv, Clean
<1>4. OutputInv'
  BY <1>0 DEF IInv, TypeOK, PlacesOK, MainInv, OutputInv, Told
<1>5. LiveMeansEndShow' /\ CredentialsGoneOnlyIf'
  BY <1>0 DEF IInv, TypeOK, PlacesOK, SignInButtons, GoLiveButtons, MainInv, SignInv, ButtonsInv, Clean,
              LiveMeansEndShow, CredentialsGoneOnlyIf
<1> QED  BY <1>1, <1>2, <1>3, <1>4, <1>5 DEF IInv

\* The signal it owed is posted.
LEMMA ObsSignalsInv ==
  ASSUME IInv, fault = "none", UNCHANGED <<signIn, buttons, ui, threads, mishaps, fault>>, ObsSignals
  PROVE  IInv'
<1> USE DEF ObsSignals
<1>0. /\ queue' \in Seq(Posts)
      /\ \A x : Posted(x)' <=> Posted(x) \/ x = "STREAMING_STOPPED"
  BY PostedOne DEF IInv, TypeOK, PlacesOK, Posts
<1>1. TypeOK'
  <2>1. FlagsOK'
    BY DEF IInv, TypeOK, FlagsOK
  <2>2. signInButton' \in SignInButtons
    BY DEF IInv, TypeOK, SignInButtons
  <2>3. goLiveButton' \in GoLiveButtons
    BY DEF IInv, TypeOK, GoLiveButtons
  <2>4. PlacesOK'
    BY <1>0, BoundsAssumption DEF IInv, TypeOK, MainInv, PlacesOK, Mishaps
  <2> QED  BY <2>1, <2>2, <2>3, <2>4 DEF TypeOK
<1>2. MainInv' /\ SignInv'
  BY <1>0, BoundsAssumption DEF IInv, TypeOK, FlagsOK, PlacesOK, SignInButtons, MainInv, SignInv
<1>3. ButtonsInv'
  BY <1>0 DEF IInv, TypeOK, PlacesOK, SignInButtons, GoLiveButtons, MainInv, SignInv, ButtonsInv, Clean
<1>4. OutputInv'
  BY <1>0 DEF IInv, TypeOK, PlacesOK, MainInv, OutputInv, Told
<1>5. LiveMeansEndShow' /\ CredentialsGoneOnlyIf'
  BY <1>0 DEF IInv, TypeOK, PlacesOK, SignInButtons, GoLiveButtons, MainInv, SignInv, ButtonsInv, Clean,
              LiveMeansEndShow, CredentialsGoneOnlyIf
<1> QED  BY <1>1, <1>2, <1>3, <1>4, <1>5 DEF IInv

LEMMA NextInv == IInv /\ [Next]_vars => IInv'
<1> SUFFICES ASSUME IInv, [Next]_vars  PROVE IInv'
  OBVIOUS
<1>1. CASE UNCHANGED vars
  <2>1. \A x : Posted(x)' <=> Posted(x)
    BY <1>1, NothingPosted
  <2> QED  BY <1>1, <2>1 DEF IInv, TypeOK, FlagsOK, PlacesOK, MainInv, SignInv, ButtonsInv, Clean,
                  OutputInv, Told, LiveMeansEndShow, CredentialsGoneOnlyIf
<1>2. ASSUME fault = "none", Click  PROVE IInv'
  BY <1>2, LogoutInv, LoginRefusedInv, LoginSucceedsInv, LoginFailsInv, TypeOtpInv, ClickGoLiveInv,
     QuitInv DEF Click
<1>3. ASSUME fault = "none", Handler  PROVE IInv'
  BY <1>3, OverlookInv, CannotFeedInv, CreateSrtFeedInv, StartShowInv, JoinInv, HandlePostInv
     DEF Handler
<1>4. ASSUME fault = "none", Threads  PROVE IInv'
  BY <1>4, StreamStartedInv, WorkerFailsInv, SubscriptionFailsInv, SilentInv DEF Threads
<1>5. ASSUME fault = "none", Obs  PROVE IInv'
  BY <1>5, ObsStartsInv, ObsConnectsInv, ObsEndsInv, ObsInactiveInv, ObsSignalsInv DEF Obs
<1> QED  BY <1>1, <1>2, <1>3, <1>4, <1>5 DEF Next

-----------------------------------------------------------------------------
(* The dock keeps the owner's side of BroadcastCallbacks *)

LEMMA InitCallbacks == Init => Callbacks!Init
BY DEF Init, Callbacks!Init

LEMMA ClickCallbacks ==
  ASSUME IInv, fault = "none", Click
  PROVE  [Callbacks!Next]_(Callbacks!vars)
<1> USE DEF IInv, TypeOK, PlacesOK, MainInv, Clickable, Callbacks!vars
<1>1. CASE Logout \/ LoginRefused \/ LoginSucceeds \/ LoginFails \/ TypeOtp
  BY <1>1 DEF Logout, LoginRefused, LoginSucceeds, LoginFails, TypeOtp
<1>2. CASE ClickGoLive
  BY <1>2 DEF ClickGoLive, EndBroadcast, Callbacks!Next, Callbacks!CallStop
<1>3. CASE Quit
  BY <1>3 DEF Quit, EndBroadcast, Callbacks!Next, Callbacks!CallStop
<1> QED  BY <1>1, <1>2, <1>3 DEF Click

LEMMA HandlerCallbacks ==
  ASSUME IInv, fault = "none", Handler
  PROVE  [Callbacks!Next]_(Callbacks!vars)
<1> USE DEF IInv, TypeOK, PlacesOK, MainInv, Callbacks!vars
<1>1. CASE Overlook \/ CannotFeed
  BY <1>1 DEF Overlook, CannotFeed
<1>2. CASE CreateSrtFeed
  <2>1. CASE broadcast = "running"
    BY <1>2, <2>1 DEF CreateSrtFeed
  <2>2. CASE broadcast # "running"
    <3>1. broadcast \in {"null", "made"} /\ broadcast' = "made" /\ UNCHANGED <<worker, late>>
      BY <1>2, <2>2 DEF CreateSrtFeed
    <3>2. ("failed" \in mishaps)' \in BOOLEAN
      OBVIOUS
    <3> QED  BY <3>1, <3>2 DEF Callbacks!Next, Callbacks!Make
  <2> QED  BY <2>1, <2>2
<1>3. CASE StartShow
  BY <1>3 DEF StartShow, Callbacks!Next, Callbacks!Start
<1>4. CASE Join
  BY <1>4 DEF Join, Callbacks!Next
<1>5. CASE HandlePost
  BY <1>5 DEF HandlePost, StopCaffeineStream, EndBroadcast, Callbacks!Next, Callbacks!CallStop
<1> QED  BY <1>1, <1>2, <1>3, <1>4, <1>5 DEF Handler

\* The threads take the steps of that module and no others.
LEMMA ThreadsCallbacks ==
  ASSUME Threads \/ Obs
  PROVE  [Callbacks!Next]_(Callbacks!vars)
<1>1. CASE Threads
  BY <1>1 DEF Threads, StreamStarted, WorkerFails, SubscriptionFails, Silent, Callbacks!Next
<1>2. CASE Obs
  BY <1>2 DEF Obs, Callbacks!vars
<1> QED  BY <1>1, <1>2

-----------------------------------------------------------------------------
(* What the runs check, for any bounds *)

LEMMA Invariance == Spec => []IInv
<1>1. Init => IInv
  BY InitInv
<1>2. IInv /\ [Next]_vars => IInv'
  BY NextInv
<1> QED  BY <1>1, <1>2, PTL DEF Spec, Safe

\* Every variable keeps its range, the stop signals the room that is left for
\* them, and a worker belongs to a started broadcast.
THEOREM TypeCorrect == Spec => []TypeOK
<1>1. IInv => TypeOK
  BY DEF IInv
<1> QED  BY <1>1, Invariance, PTL

\* A broadcast that has reported "started" and no failure can be ended, and
\* nobody can sign out under it.
THEOREM LiveIsShown == Spec => []LiveMeansEndShow
<1>1. IInv => LiveMeansEndShow
  BY DEF IInv
<1> QED  BY <1>1, Invariance, PTL

\* The credentials are pulled from under a broadcast only after a failure or a
\* click over it.
THEOREM SignOutIsHeldOff == Spec => []CredentialsGoneOnlyIf
<1>1. IInv => CredentialsGoneOnlyIf
  BY DEF IInv
<1> QED  BY <1>1, Invariance, PTL

\* A broadcast runs without the output of OBS only after a failure, or until
\* the dock is told.
THEOREM StreamedOrTold == Spec => []UnstreamedOnlyIf
<1>1. IInv => UnstreamedOnlyIf
  BY DEF IInv, TypeOK, PlacesOK, OutputInv, Told, UnstreamedOnlyIf, StreamingActive
<1> QED  BY <1>1, Invariance, PTL

\* Dock, Instance and OBS together call a Broadcast as BroadcastCallbacks lets
\* its owner: with CallbacksImplemented, the two sides of the interface meet.
THEOREM BroadcastIsUsedRightly == Spec => UsesBroadcastRightly
<1>1. Init => Callbacks!Init
  BY InitCallbacks
<1>2. IInv /\ [Next]_vars => [Callbacks!Next]_(Callbacks!vars)
  <2> SUFFICES ASSUME IInv, [Next]_vars  PROVE [Callbacks!Next]_(Callbacks!vars)
    OBVIOUS
  <2>1. CASE UNCHANGED vars
    BY <2>1 DEF Callbacks!vars
  <2> QED  BY <2>1, ClickCallbacks, HandlerCallbacks, ThreadsCallbacks DEF Next
<1> QED  BY <1>1, <1>2, Invariance, PTL DEF Spec, Safe, UsesBroadcastRightly, Callbacks!Spec
=============================================================================
