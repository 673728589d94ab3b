---------------------------- MODULE SessionProofs ----------------------------
(***************************************************************************)
(* Proofs about Session.tla, for any users and any supply of tokens.       *)
(***************************************************************************)
EXTENDS Session, TLAPS

\* A token the dock, the Instance or the file holds was handed out once.
TokensAreIssued == {refreshToken, creds, file.token} \subseteq issued \cup {NoToken}

IInv ==
  /\ TypeOK
  /\ TokensAreIssued
  /\ OnePerson
  /\ SignedOutStaysOut
  /\ SessionLostOnlyIf
  /\ StaleTokenOnlyIf

USE NobodyAssumption, NoTokenAssumption DEF Tokens

-----------------------------------------------------------------------------
(* What the operators of the server do to the tokens *)

\* A token is never the absence of one, and belongs to a user.
LEMMA TokenFacts ==
  ASSUME NEW t \in Tokens
  PROVE  t # NoToken /\ t.user \in Users /\ t.user # Nobody
  OBVIOUS

\* An exchange gives the person who had the token a token that is issued and
\* accepted, and forgets nothing that was issued or replaced.
LEMMA ExchangeFacts ==
  ASSUME TypeOK, NEW token, NEW new \in Tokens, Exchange(token, new)
  PROVE  /\ token \in Tokens
         /\ new.user = token.user
         /\ new \in issued'
         /\ issued \subseteq issued'
         /\ issued' \subseteq Tokens
         /\ accepted' \subseteq issued'
         /\ replaced \subseteq replaced'
         /\ replaced' \subseteq issued'
         /\ new # token => token \in replaced'
  <1>1. token \in accepted /\ token \in issued /\ token \in Tokens
    BY DEF Exchange, TypeOK
  <1>2. new.user = token.user
    BY DEF Exchange, Fresh
  <1>3. issued' = issued \cup {new} /\ issued' \subseteq Tokens
    BY DEF Exchange, TypeOK
  <1>4. accepted' \subseteq accepted \cup {new}
    BY DEF Exchange
  <1>5. replaced \subseteq replaced' /\ replaced' \subseteq replaced \cup {token}
    BY DEF Exchange
  <1>6. new # token => token \in replaced'
    BY DEF Exchange
  <1> QED
    BY <1>1, <1>2, <1>3, <1>4, <1>5, <1>6 DEF TypeOK

-----------------------------------------------------------------------------
(* The invariant holds at first, and every step keeps it *)

LEMMA InitInv == Init => IInv
  <1> SUFFICES ASSUME Init
               PROVE  IInv
    OBVIOUS
  <1>1. file.user = Nobody /\ file.token = NoToken
    BY DEF Init, NoFile
  <1>2. TypeOK
    BY <1>1 DEF Init, TypeOK, NoFile
  <1>3. TokensAreIssued /\ OnePerson /\ SignedOutStaysOut
    BY <1>1 DEF Init, TokensAreIssued, OnePerson, SignedOutStaysOut
  <1>4. SessionLostOnlyIf /\ StaleTokenOnlyIf
    BY DEF Init, SessionLostOnlyIf, StaleTokenOnlyIf
  <1> QED
    BY <1>2, <1>3, <1>4 DEF IInv

LEMMA LaunchInv ==
  ASSUME IInv, Launch
  PROVE  IInv'
  <1>0. TypeOK
    BY DEF IInv
  <1>1. /\ process' = "on" /\ username' = file.user /\ refreshToken' = file.token
        /\ UNCHANGED <<file, wanted, lost>>
    BY DEF Launch
  <1>2. /\ file.user \in Users \cup {Nobody}
        /\ file.token \in Tokens \cup {NoToken}
        /\ file.token \in issued \cup {NoToken}
        /\ file.user = Nobody <=> file.token = NoToken
        /\ file.user # Nobody => file.token.user = file.user
    BY DEF IInv, TypeOK, TokensAreIssued, OnePerson
  <1>3. SignedOutStaysOut'
    <2>1. process = "off"
      BY DEF Launch
    <2> QED
      BY <1>1, <2>1 DEF IInv, SignedOutStaysOut
  <1>4. CASE Restored
    <2>1. PICK new \in Tokens :
            /\ Exchange(file.token, new)
            /\ \/ creds' = new /\ unanswered' = FALSE
               \/ creds' = NoToken /\ unanswered' = TRUE
      BY <1>4 DEF Restored
    <2>2. /\ new.user = file.token.user
          /\ new \in issued' /\ issued \subseteq issued' /\ issued' \subseteq Tokens
          /\ accepted' \subseteq issued' /\ replaced' \subseteq issued'
          /\ new # file.token => file.token \in replaced'
          /\ file.token \in Tokens
      BY <1>0, <2>1, ExchangeFacts
    <2>3. file.user # Nobody
      BY <1>2, <2>2
    <2>4. TypeOK'
      BY <1>0, <1>1, <1>2, <2>1, <2>2 DEF TypeOK
    <2>5. TokensAreIssued'
      BY <1>1, <1>2, <2>1, <2>2 DEF TokensAreIssued
    <2>6. OnePerson'
      BY <1>1, <1>2, <2>1, <2>2, <2>3 DEF OnePerson
    <2>7. SessionLostOnlyIf' /\ StaleTokenOnlyIf'
      BY <1>1, <2>1, <2>2, TokenFacts DEF SessionLostOnlyIf, StaleTokenOnlyIf
    <2> QED
      BY <1>3, <2>4, <2>5, <2>6, <2>7 DEF IInv
  <1>5. CASE NotRestored
    <2>1. /\ creds' = NoToken /\ UNCHANGED server
          /\ unanswered' = TRUE \/ (unanswered' = FALSE /\ file.token \notin accepted)
      BY <1>5 DEF NotRestored
    <2>2. TypeOK'
      BY <1>0, <1>1, <1>2, <2>1 DEF TypeOK, server
    <2>3. TokensAreIssued'
      BY <1>1, <1>2, <2>1 DEF TokensAreIssued, server
    <2>4. OnePerson' /\ StaleTokenOnlyIf'
      BY <1>1, <1>2, <2>1 DEF OnePerson, StaleTokenOnlyIf
    <2>5. SessionLostOnlyIf'
      BY <1>1, <1>2, <2>1 DEF SessionLostOnlyIf, server
    <2> QED
      BY <1>3, <2>2, <2>3, <2>4, <2>5 DEF IInv
  <1> QED
    BY <1>4, <1>5 DEF Launch

LEMMA LoginInv ==
  ASSUME IInv, NEW user \in Users, Login(user) \/ LoginHalfDone(user)
  PROVE  IInv'
  <1>0. TypeOK
    BY DEF IInv
  <1>1. PICK new \in Fresh(user) :
          /\ issued' = issued \cup {new} /\ accepted' = accepted \cup {new}
          /\ Login(user) => creds' = new /\ refreshToken' = new
    BY DEF Login, LoginHalfDone
  <1>2. new \in Tokens /\ new.user = user /\ new # NoToken /\ user # Nobody
    BY <1>1 DEF Fresh
  <1>3. UNCHANGED <<process, file, replaced>> /\ process = "on" /\ username = Nobody
    BY DEF Login, LoginHalfDone
  <1>4. CASE Login(user)
    <2>1. /\ username' = user /\ wanted' = user /\ lost' = FALSE
          /\ UNCHANGED unanswered
          /\ creds' = new /\ refreshToken' = new
      BY <1>1, <1>4 DEF Login
    <2>2. TypeOK'
      BY <1>0, <1>1, <1>2, <1>3, <2>1 DEF TypeOK
    <2>3. TokensAreIssued'
      BY <1>1, <1>3, <2>1 DEF IInv, TokensAreIssued
    <2>4. OnePerson'
      BY <1>2, <1>3, <2>1 DEF IInv, OnePerson
    <2>5. SignedOutStaysOut' /\ SessionLostOnlyIf' /\ StaleTokenOnlyIf'
      BY <1>2, <1>3, <2>1 DEF SignedOutStaysOut, SessionLostOnlyIf, StaleTokenOnlyIf
    <2> QED
      BY <2>2, <2>3, <2>4, <2>5 DEF IInv
  <1>5. CASE LoginHalfDone(user)
    <2>1. /\ creds' = NoToken /\ unanswered' = TRUE
          /\ UNCHANGED <<username, refreshToken, wanted, lost>>
      BY <1>5 DEF LoginHalfDone, dock
    <2>2. TypeOK'
      BY <1>0, <1>1, <1>2, <1>3, <2>1 DEF TypeOK
    <2>3. TokensAreIssued'
      BY <1>1, <1>3, <2>1 DEF IInv, TokensAreIssued
    <2>4. OnePerson'
      BY <1>3, <2>1 DEF IInv, OnePerson
    <2>5. SignedOutStaysOut' /\ SessionLostOnlyIf' /\ StaleTokenOnlyIf'
      BY <1>3, <2>1 DEF IInv, SignedOutStaysOut, SessionLostOnlyIf, StaleTokenOnlyIf
    <2> QED
      BY <2>2, <2>3, <2>4, <2>5 DEF IInv
  <1> QED
    BY <1>4, <1>5

LEMMA LogoutInv ==
  ASSUME IInv, Logout
  PROVE  IInv'
  <1>1. /\ creds' = NoToken /\ username' = Nobody /\ wanted' = Nobody /\ lost' = FALSE
        /\ process = "on"
        /\ UNCHANGED <<process, file, refreshToken, issued, accepted, replaced, unanswered>>
    BY DEF Logout, server
  <1>2. TypeOK' /\ TokensAreIssued'
    BY <1>1 DEF IInv, TypeOK, TokensAreIssued
  <1>3. OnePerson' /\ SignedOutStaysOut'
    BY <1>1 DEF IInv, OnePerson, SignedOutStaysOut
  <1>4. SessionLostOnlyIf' /\ StaleTokenOnlyIf'
    BY <1>1 DEF SessionLostOnlyIf, StaleTokenOnlyIf
  <1> QED
    BY <1>2, <1>3, <1>4 DEF IInv

LEMMA RefreshInv ==
  ASSUME IInv, RefreshCredentials
  PROVE  IInv'
  <1>0. TypeOK
    BY DEF IInv
  <1>1. PICK new \in Tokens :
          /\ Exchange(creds, new)
          /\ \/ creds' = new /\ UNCHANGED unanswered
             \/ UNCHANGED creds /\ unanswered' = TRUE
    BY DEF RefreshCredentials
  <1>2. UNCHANGED <<process, file, username, refreshToken, wanted, lost>>
    BY DEF RefreshCredentials, dock
  <1>3. /\ creds \in Tokens /\ new.user = creds.user
        /\ new \in issued' /\ issued \subseteq issued' /\ issued' \subseteq Tokens
        /\ accepted' \subseteq issued' /\ replaced \subseteq replaced'
        /\ replaced' \subseteq issued'
        /\ new # creds => creds \in replaced'
    BY <1>0, <1>1, ExchangeFacts
  <1>4. creds # NoToken /\ creds' # NoToken
    BY <1>1, <1>3, TokenFacts
  <1>5. TypeOK'
    BY <1>0, <1>1, <1>2, <1>3 DEF TypeOK
  <1>6. TokensAreIssued'
    BY <1>1, <1>2, <1>3 DEF IInv, TokensAreIssued
  <1>7. OnePerson'
    BY <1>1, <1>2, <1>3, <1>4 DEF IInv, OnePerson
  <1>8. SignedOutStaysOut' /\ SessionLostOnlyIf'
    BY <1>2, <1>4 DEF IInv, SignedOutStaysOut, SessionLostOnlyIf
  <1>9. StaleTokenOnlyIf'
    BY <1>1, <1>2, <1>3, <1>4 DEF IInv, StaleTokenOnlyIf
  <1> QED
    BY <1>5, <1>6, <1>7, <1>8, <1>9 DEF IInv

LEMMA ExpireInv ==
  ASSUME IInv, NEW token \in Tokens, Expire(token)
  PROVE  IInv'
  <1>1. /\ accepted' \subseteq accepted
        /\ UNCHANGED <<process, file, username, refreshToken, creds, issued, replaced,
                       unanswered, wanted, lost>>
    BY DEF Expire, dock, history
  <1>2. TypeOK' /\ TokensAreIssued'
    BY <1>1 DEF IInv, TypeOK, TokensAreIssued
  <1>3. OnePerson' /\ SignedOutStaysOut' /\ StaleTokenOnlyIf'
    BY <1>1 DEF IInv, OnePerson, SignedOutStaysOut, StaleTokenOnlyIf
  <1>4. SessionLostOnlyIf'
    BY <1>1 DEF IInv, SessionLostOnlyIf
  <1> QED
    BY <1>2, <1>3, <1>4 DEF IInv

\* What saveSettings writes may stand in the file.
LEMMA SavedFacts ==
  ASSUME IInv
  PROVE  /\ Saved \in [user : Users \cup {Nobody}, token : Tokens \cup {NoToken}]
         /\ Saved.user = username
         /\ Saved.user = Nobody <=> Saved.token = NoToken
         /\ Saved.token \in issued \cup {NoToken}
         /\ Saved.user # Nobody => Saved.token.user = Saved.user
  BY DEF IInv, TypeOK, TokensAreIssued, OnePerson, Saved

LEMMA EndInv ==
  ASSUME IInv, Quit \/ Die
  PROVE  IInv'
  <1>1. /\ process = "on" /\ process' = "off" /\ username' = Nobody
        /\ refreshToken' = NoToken /\ creds' = NoToken /\ unanswered' = FALSE
        /\ UNCHANGED <<issued, accepted, replaced, wanted>>
    BY DEF Quit, Die, Forget, server
  <1>2. file' \in {file, Saved, NoFile}
    BY DEF Quit, Die
  <1>3. lost' \in BOOLEAN /\ (~lost' => ~lost /\ file'.user = username)
    BY SavedFacts DEF Quit, Die, IInv, TypeOK
  <1>4. /\ file' \in [user : Users \cup {Nobody}, token : Tokens \cup {NoToken}]
        /\ file'.user = Nobody <=> file'.token = NoToken
        /\ file'.token \in issued \cup {NoToken}
        /\ file'.user # Nobody => file'.token.user = file'.user
    BY <1>2, SavedFacts DEF IInv, TypeOK, TokensAreIssued, OnePerson, NoFile
  <1>5. TypeOK' /\ TokensAreIssued'
    BY <1>1, <1>3, <1>4 DEF IInv, TypeOK, TokensAreIssued
  <1>6. OnePerson'
    BY <1>1, <1>4 DEF OnePerson
  <1>7. SignedOutStaysOut'
    BY <1>1, <1>3 DEF IInv, SignedOutStaysOut
  <1>8. SessionLostOnlyIf' /\ StaleTokenOnlyIf'
    BY <1>1 DEF SessionLostOnlyIf, StaleTokenOnlyIf
  <1> QED
    BY <1>5, <1>6, <1>7, <1>8 DEF IInv

LEMMA NextInv == IInv /\ [Next]_vars => IInv'
  <1> SUFFICES ASSUME IInv, [Next]_vars
               PROVE  IInv'
    OBVIOUS
  <1>1. CASE Launch
    BY <1>1, LaunchInv
  <1>2. ASSUME NEW user \in Users, Login(user) \/ LoginHalfDone(user)
        PROVE  IInv'
    BY <1>2, LoginInv
  <1>3. CASE Logout
    BY <1>3, LogoutInv
  <1>4. CASE RefreshCredentials
    BY <1>4, RefreshInv
  <1>5. ASSUME NEW token \in Tokens, Expire(token)
        PROVE  IInv'
    BY <1>5, ExpireInv
  <1>6. CASE Quit \/ Die
    BY <1>6, EndInv
  <1>7. CASE UNCHANGED vars
    BY <1>7 DEF vars, server, dock, history, IInv, TypeOK, TokensAreIssued, OnePerson,
                SignedOutStaysOut, SessionLostOnlyIf, StaleTokenOnlyIf
  <1> QED
    BY <1>1, <1>2, <1>3, <1>4, <1>5, <1>6, <1>7 DEF Next

-----------------------------------------------------------------------------
(* The theorems *)

\* The strengthened invariant of sessions.
THEOREM Invariance == Spec => []IInv
  BY InitInv, NextInv, PTL DEF Spec

\* Names, tokens and the server's sets stay what they are, and a file holds a
\* token exactly when it names a user.
THEOREM TypeCorrect == Spec => []TypeOK
  <1>1. IInv => TypeOK
    BY DEF IInv
  <1> QED
    BY <1>1, Invariance, PTL

\* login, logout, refreshes, saveSettings and loadSavedSettings never mix two
\* people's names and tokens.
THEOREM NeverMixed == Spec => []OnePerson
  <1>1. IInv => OnePerson
    BY DEF IInv
  <1> QED
    BY <1>1, Invariance, PTL

\* A sign-in or a sign-out survives every restart, but for a kill before the
\* file was written.
THEOREM ClicksSurvive == Spec => []SignedOutStaysOut
  <1>1. IInv => SignedOutStaysOut
    BY DEF IInv
  <1> QED
    BY <1>1, Invariance, PTL

\* A restart loses the session only to the server or to a lost answer.
THEOREM SessionSurvives == Spec => []SessionLostOnlyIf
  <1>1. IInv => SessionLostOnlyIf
    BY DEF IInv
  <1> QED
    BY <1>1, Invariance, PTL

\* Only a refresh makes the token that will be saved a stale one.
THEOREM TokenIsFresh == Spec => []StaleTokenOnlyIf
  <1>1. IInv => StaleTokenOnlyIf
    BY DEF IInv
  <1> QED
    BY <1>1, Invariance, PTL
=============================================================================
