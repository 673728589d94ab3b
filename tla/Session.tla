------------------------------- MODULE Session -------------------------------
(***************************************************************************)
(* The signed-in user over many runs of OBS: what the dock shows, the      *)
(* credentials the Instance holds, and the settings file that carries them *)
(* from one run to the next (src/src/caffeine-dock-window.cpp,             *)
(* src/src/instance.cpp, src/src/rest-api.cpp).                            *)
(*                                                                         *)
(* The file is written by the destructor of the dock and by nothing else,  *)
(* so a process that is killed leaves the file of the run before.  The     *)
(* account server is the environment: it may hand out another refresh      *)
(* token whenever one is used, and may stop accepting a token at any time. *)
(***************************************************************************)

CONSTANTS
  Users,    \* user names
  Nobody,   \* the empty user name
  Serials,  \* tells the refresh tokens of a user apart
  NoToken   \* no refresh token, or the empty one

ASSUME NobodyAssumption == Nobody \notin Users
ASSUME NoTokenAssumption == NoToken \notin [user : Users, serial : Serials]

VARIABLES
  process,       \* OBS is running, with the dock in it
  file,          \* the settings file; a missing one reads as an empty one
  username,      \* username_ of the dock, which it shows
  refreshToken,  \* refreshToken_ of the dock
  creds,         \* the refresh token in sharedCredentials_, set with userInfo_
  issued,        \* every refresh token the server has handed out
  accepted,      \* those it accepts
  replaced,      \* those it has handed out another one for
  unanswered,    \* a request of this run got no answer, or a useless one
  wanted,        \* whom the user last signed in, or nobody
  lost           \* the process was killed before that was saved

server == <<issued, accepted, replaced>>
dock == <<username, refreshToken>>
history == <<unanswered, wanted, lost>>

vars == <<process, file, dock, creds, server, history>>

Tokens == [user : Users, serial : Serials]

NoFile == [user |-> Nobody, token |-> NoToken]

TypeOK ==
  /\ process \in {"off", "on"}
  /\ file \in [user : Users \cup {Nobody}, token : Tokens \cup {NoToken}]
  /\ username \in Users \cup {Nobody}
  /\ refreshToken \in Tokens \cup {NoToken}
  /\ creds \in Tokens \cup {NoToken}
  /\ issued \subseteq Tokens
  /\ accepted \subseteq issued
  /\ replaced \subseteq issued
  /\ unanswered \in BOOLEAN
  /\ wanted \in Users \cup {Nobody}
  /\ lost \in BOOLEAN
  \* the file holds a token exactly when it names a user
  /\ file.user = Nobody <=> file.token = NoToken

\* The plugin has never run.
Init ==
  /\ process = "off"
  /\ file = NoFile
  /\ username = Nobody
  /\ refreshToken = NoToken
  /\ creds = NoToken
  /\ issued = {}
  /\ accepted = {}
  /\ replaced = {}
  /\ unanswered = FALSE
  /\ wanted = Nobody
  /\ lost = FALSE

-----------------------------------------------------------------------------
(* The account server *)

\* A token of a user that nobody has seen before.
Fresh(user) == {t \in Tokens \ issued : t.user = user}

\* A refresh with token is answered with new, which may be the same one; the
\* old one may go on being accepted.
Exchange(token, new) ==
  /\ token \in accepted
  /\ new \in Fresh(token.user) \cup {token}
  /\ issued' = issued \cup {new}
  /\ replaced' = IF new = token THEN replaced ELSE replaced \cup {token}
  /\ accepted' \in {accepted \cup {new}, (accepted \ {token}) \cup {new}}

\* The user has the token revoked elsewhere, or it expires.
Expire(token) ==
  /\ token \in accepted
  /\ accepted' = accepted \ {token}
  /\ UNCHANGED <<process, file, dock, creds, issued, replaced, history>>

-----------------------------------------------------------------------------
(* A run begins *)

\* loadSavedSettings asks for new credentials with the token of the file, even
\* when it is empty; it does not look at the result, and it does not read back
\* the token it was given.
Restored ==
  \E new \in Tokens :
    /\ Exchange(file.token, new)
    /\ \/ creds' = new /\ unanswered' = FALSE
       \* the answer is lost, or the user's data cannot be fetched
       \/ creds' = NoToken /\ unanswered' = TRUE

NotRestored ==
  /\ creds' = NoToken
  /\ UNCHANGED server
  /\ \/ unanswered' = TRUE
     \/ unanswered' = FALSE /\ file.token \notin accepted

Launch ==
  /\ process = "off"
  /\ process' = "on"
  /\ username' = file.user
  /\ refreshToken' = file.token
  /\ Restored \/ NotRestored
  /\ UNCHANGED <<file, wanted, lost>>

-----------------------------------------------------------------------------
(* Clicks *)

\* Mutant: the token of the dock is set once only.
LoginKeepsToken(user) ==
  /\ process = "on"
  /\ username = Nobody
  /\ \E new \in Fresh(user) :
       /\ issued' = issued \cup {new}
       /\ accepted' = accepted \cup {new}
       /\ creds' = new
       /\ refreshToken' = IF refreshToken = NoToken THEN new ELSE refreshToken
  /\ username' = user
  /\ wanted' = user
  /\ lost' = FALSE
  /\ UNCHANGED <<process, file, replaced, unanswered>>

\* Mutant: the dock does not ask the Instance for the token.
LoginWithoutToken(user) ==
  /\ process = "on"
  /\ username = Nobody
  /\ \E new \in Fresh(user) :
       /\ issued' = issued \cup {new}
       /\ accepted' = accepted \cup {new}
       /\ creds' = new
  /\ username' = user
  /\ wanted' = user
  /\ lost' = FALSE
  /\ UNCHANGED <<process, file, refreshToken, replaced, unanswered>>

\* login(), when the dock shows "Sign in": Instance::authenticate stores the
\* credentials and fetches the user's data with them, and the dock takes the
\* token the sign-in was answered with.
Login(user) ==
  /\ process = "on"
  /\ username = Nobody
  /\ \E new \in Fresh(user) :
       /\ issued' = issued \cup {new}
       /\ accepted' = accepted \cup {new}
       /\ creds' = new
       /\ refreshToken' = new
  /\ username' = user
  /\ wanted' = user
  /\ lost' = FALSE
  /\ UNCHANGED <<process, file, replaced, unanswered>>

\* The credentials come, but the user's data cannot be fetched: both go.
LoginHalfDone(user) ==
  /\ process = "on"
  /\ username = Nobody
  /\ \E new \in Fresh(user) :
       /\ issued' = issued \cup {new}
       /\ accepted' = accepted \cup {new}
  /\ creds' = NoToken
  /\ unanswered' = TRUE
  /\ UNCHANGED <<process, file, dock, replaced, wanted, lost>>

\* logout(): the dock keeps its refreshToken_.
Logout ==
  /\ process = "on"
  /\ username # Nobody
  /\ creds' = NoToken
  /\ username' = Nobody
  /\ wanted' = Nobody
  /\ lost' = FALSE
  /\ UNCHANGED <<process, file, refreshToken, server, unanswered>>

-----------------------------------------------------------------------------
(* Requests *)

\* refreshCredentials, when a request is answered 401: what it returns goes to
\* sharedCredentials_, and to neither refreshToken_.
RefreshCredentials ==
  /\ process = "on"
  /\ \E new \in Tokens :
       /\ Exchange(creds, new)
       /\ \/ creds' = new /\ UNCHANGED unanswered
          \/ UNCHANGED creds /\ unanswered' = TRUE
  /\ UNCHANGED <<process, file, dock, wanted, lost>>

-----------------------------------------------------------------------------
(* A run ends *)

\* Mutant: a file is written only when there is somebody to name in it.
SavedUnlessNobody ==
  IF username = Nobody THEN file ELSE [user |-> username, token |-> refreshToken]

\* What saveSettings writes.
Saved ==
  [user |-> username,
   token |-> IF username # Nobody THEN refreshToken ELSE NoToken]

\* The memory of a process that has ended.
Forget ==
  /\ process' = "off"
  /\ username' = Nobody
  /\ refreshToken' = NoToken
  /\ creds' = NoToken
  /\ unanswered' = FALSE

\* ~CaffeineDockWindow: "Only save the settings when closing the app".
Quit ==
  /\ process = "on"
  /\ file' = Saved
  /\ Forget
  /\ UNCHANGED <<server, wanted, lost>>

\* The process is killed or crashes; in saveSettings the file may be the old
\* one, the new one, or one that has been moved away.
Die ==
  /\ process = "on"
  /\ file' \in {file, Saved, NoFile}
  /\ Forget
  /\ lost' = (lost \/ file'.user # username)
  /\ UNCHANGED <<server, wanted>>

-----------------------------------------------------------------------------

Next ==
  \/ Launch \/ Logout \/ RefreshCredentials \/ Quit \/ Die
  \/ \E user \in Users : Login(user) \/ LoginHalfDone(user)
  \/ \E token \in Tokens : Expire(token)

Spec == Init /\ [][Next]_vars

-----------------------------------------------------------------------------
(* Properties *)

\* The name the dock shows, the token it would save, the pair in the file and
\* the credentials requests are sent with are all of one person: nobody
\* broadcasts as another user, now or after a restart, however sign-ins,
\* sign-outs, refreshes and kills follow each other.
OnePerson ==
  /\ creds # NoToken => creds.user = username
  /\ username # Nobody => refreshToken # NoToken /\ refreshToken.user = username
  /\ file.user # Nobody => file.token # NoToken /\ file.token.user = file.user

\* Who signed out stays signed out, and who signed in stays shown as signed
\* in, across every restart but one that follows a kill before the file was
\* written.
SignedOutStaysOut ==
  ~lost => (IF process = "on" THEN username ELSE file.user) = wanted

\* A user the dock shows as signed in has no credentials only if the server
\* did not accept the token that was saved, or a request was not answered.
SessionLostOnlyIf ==
  process = "on" /\ username # Nobody /\ creds = NoToken =>
    refreshToken \in issued \ accepted \/ unanswered

\* The token that will be saved is the one the credentials were last renewed
\* with, or the server has since handed out another for it: a refresh, the one
\* at the start included, is the only thing that makes the saved token stale.
StaleTokenOnlyIf ==
  creds # NoToken /\ refreshToken # creds => refreshToken \in replaced
=============================================================================
