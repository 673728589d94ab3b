--------------------------- MODULE RequestsProofs ---------------------------
(***************************************************************************)
(* What Requests.tla checks on a few callers, for any callers, any number  *)
(* of retries and any number of credentials the server may issue: type     *)
(* correctness, which is inductive, and relative to it the count of the    *)
(* attempts, what the server carries out, and the order in which           *)
(* credentials are issued, stored, sent and refused.                       *)
(***************************************************************************)
EXTENDS Requests, TLAPS

USE NumRetriesAssumption, MaxIssueAssumption

-----------------------------------------------------------------------------
(* One caller's step *)

\* What a caller's request may become.
Legal(r) == r \in Call /\ r.tryNum < NumRetries

\* A step of one caller leaves the requests of the others alone.
LEMMA BecomeOnly ==
  ASSUME TypeOK, NEW c \in Callers, NEW r, Become(c, r)
  PROVE  /\ call'[c] = r
         /\ \A d \in Callers \ {c} : call'[d] = call[d]
BY DEF TypeOK, Become

LEMMA BecomeLegal ==
  ASSUME TypeOK, NEW c \in Callers, NEW r, Legal(r), Become(c, r)
  PROVE  call' \in [Callers -> Call] /\ \A d \in Callers : call'[d].tryNum < NumRetries
<1>1. call' \in [Callers -> Call]
  BY DEF TypeOK, Become, Legal
<1>2. ASSUME NEW d \in Callers PROVE call'[d].tryNum < NumRetries
  <2>1. CASE d = c
    BY <2>1, BecomeOnly DEF Legal
  <2>2. CASE d # c
    BY <2>2, BecomeOnly DEF TypeOK
  <2> QED
    BY <2>1, <2>2
<1> QED
  BY <1>1, <1>2

LEMMA OneIssued == 1 \in Issues
BY DEF Issues

\* The ways an attempt ends.
LEMMA ReturnLegal ==
  ASSUME TypeOK, NEW c \in Callers, NEW failures \in Nat, NEW carried \in Nat,
         NEW result \in {"none", "value", "empty"}
  PROVE  Legal(Fresh("idle", call[c].kind, failures, carried, result))
<1>1. call[c].kind \in Kinds
  BY DEF TypeOK, Call
<1> QED
  BY <1>1 DEF Legal, Call, Fresh, Issues

LEMMA AttemptEnds ==
  ASSUME TypeOK, NEW c \in Callers, NEW retries \in BOOLEAN, NEW carried \in Nat,
         NEW result \in {"none", "value", "empty"},
         IF retries THEN TryAgain(c, carried) ELSE Return(c, call[c].failures, carried, result)
  PROVE  \E r : Legal(r) /\ Become(c, r)
<1>0. /\ Legal(call[c])
      /\ call[c].tryNum + 1 \in Nat
      /\ call[c].failures \in Nat /\ call[c].failures + 1 \in Nat
  BY DEF TypeOK, Legal, Call
<1>1. CASE ~retries
  BY <1>0, <1>1, ReturnLegal DEF Return
<1>2. CASE retries /\ call[c].tryNum + 1 < NumRetries
  <2> DEFINE paused == [call[c] EXCEPT !.pc = "backoff", !.sent = 1]
             counted == [paused EXCEPT !.tryNum = call[c].tryNum + 1]
  <2>a. paused \in Call
    BY <1>0, OneIssued DEF Legal, Call
  <2>b. counted \in Call /\ counted.tryNum = call[c].tryNum + 1
    BY <1>0, <2>a DEF Call
  <2>1. Legal([counted EXCEPT !.failures = call[c].failures + 1, !.carried = carried])
    BY <1>0, <1>2, <2>b DEF Legal, Call
  <2> QED
    BY <1>2, <2>1 DEF TryAgain
<1>3. CASE retries /\ ~(call[c].tryNum + 1 < NumRetries)
  BY <1>0, <1>3, ReturnLegal DEF TryAgain, Return
<1> QED
  BY <1>1, <1>2, <1>3

\* Whatever a caller does, its request stays legal and the others are left
\* alone.
LEMMA StepIsLegal ==
  ASSUME TypeOK, NEW c \in Callers, Step(c) \/ \E kind \in Kinds : Begin(c, kind)
  PROVE  \E r : Legal(r) /\ Become(c, r)
<1>0. Legal(call[c]) /\ call[c].sent \in Issues
  BY DEF TypeOK, Legal, Call
<1>1. ASSUME NEW kind \in Kinds, Begin(c, kind) PROVE \E r : Legal(r) /\ Become(c, r)
  <2>1. Legal(Fresh("headers", kind, 0, 0, "none"))
    BY DEF Legal, Call, Fresh, Issues
  <2> QED
    BY <1>1, <2>1 DEF Begin
<1>2. CASE BackoffOver(c)
  <2>1. Legal([call[c] EXCEPT !.pc = "headers"])
    BY <1>0 DEF Legal, Call
  <2> QED
    BY <1>2, <2>1 DEF BackoffOver
<1>3. CASE Headers(c)
  <2>1. Legal([call[c] EXCEPT !.pc = "send", !.sent = stored])
    BY <1>0 DEF Legal, Call, TypeOK
  <2> QED
    BY <1>3, <2>1 DEF Headers
<1>4. CASE Refused(c)
  <2>1. Legal([call[c] EXCEPT !.pc = "refresh", !.refused = call[c].sent, !.sent = 1])
    BY <1>0, OneIssued DEF Legal, Call
  <2> QED
    BY <1>4, <2>1 DEF Refused
<1>5. CASE ReadToken(c)
  <2>1. Legal([call[c] EXCEPT !.pc = "refreshing"])
    BY <1>0 DEF Legal, Call
  <2> QED
    BY <1>5, <2>1 DEF ReadToken
<1>6. CASE Store(c)
  <2>1. Legal([call[c] EXCEPT !.pc = "headers", !.fresh = 1])
    BY <1>0, OneIssued DEF Legal, Call
  <2> QED
    BY <1>6, <2>1 DEF Store
<1>7. CASE Refreshed(c)
  <2>1. issued + 1 \in Issues
    BY <1>7 DEF Refreshed, TypeOK, Issues
  <2>2. Legal([call[c] EXCEPT !.pc = "store", !.fresh = issued + 1])
    BY <1>0, <2>1 DEF Legal, Call
  <2> QED
    BY <1>7, <2>2 DEF Refreshed
<1>8. CASE RefreshFails(c)
  <2>1. call[c].failures \in Nat /\ call[c].carried \in Nat
    BY <1>0 DEF Legal, Call
  <2> QED
    BY <1>8, <2>1, ReturnLegal DEF RefreshFails, Return
<1>9. ASSUME NEW outcome \in Outcomes, Answer(c, outcome) PROVE \E r : Legal(r) /\ Become(c, r)
  <2>1. WantsRetry(call[c].kind, outcome) \in BOOLEAN
    BY DEF WantsRetry
  <2>2. call[c].carried \in Nat /\ call[c].carried + 1 \in Nat
    BY <1>0 DEF Legal, Call
  <2> QED
    BY <1>9, <2>1, <2>2, AttemptEnds DEF Answer
<1>10. CASE Lost(c)
  <2>1. WantsRetry(call[c].kind, "nothing") \in BOOLEAN
    BY DEF WantsRetry
  <2>2. call[c].carried \in Nat /\ call[c].carried + 1 \in Nat
    BY <1>0 DEF Legal, Call
  <2> QED
    BY <1>10, <2>1, <2>2, AttemptEnds DEF Lost
<1> QED
  BY <1>1, <1>2, <1>3, <1>4, <1>5, <1>6, <1>7, <1>8, <1>9, <1>10 DEF Step

-----------------------------------------------------------------------------
(* Type correctness *)

LEMMA TypeInit == Init => TypeOK
BY DEF Init, TypeOK, Issues, Call, Fresh, Kinds

LEMMA StepChangesLittle ==
  ASSUME TypeOK, NEW c \in Callers, Step(c) \/ \E kind \in Kinds : Begin(c, kind)
  PROVE  stored' \in Issues /\ issued' \in Issues /\ issued <= issued' /\ expired' = expired
<1>1. CASE Refreshed(c)
  BY <1>1 DEF Refreshed, TypeOK, Issues
<1>2. CASE Store(c)
  BY <1>2 DEF Store, TypeOK, Call, Issues
<1>3. CASE UNCHANGED <<stored, issued, expired>>
  BY <1>3 DEF TypeOK, Issues
<1> QED
  BY <1>1, <1>2, <1>3 DEF Step, Begin, BackoffOver, Headers, Answer, Lost, Refused, ReadToken,
     RefreshFails

LEMMA TypeStep == TypeOK /\ [Next]_vars => TypeOK'
<1> SUFFICES ASSUME TypeOK, [Next]_vars PROVE TypeOK'
  OBVIOUS
<1>1. CASE UNCHANGED vars
  BY <1>1 DEF vars, TypeOK
<1>2. ASSUME NEW c \in Callers, Step(c) \/ \E kind \in Kinds : Begin(c, kind) PROVE TypeOK'
  <2>1. PICK r : Legal(r) /\ Become(c, r)
    BY <1>2, StepIsLegal
  <2>2. stored' \in Issues /\ issued' \in Issues /\ issued <= issued' /\ expired' = expired
    BY <1>2, StepChangesLittle
  <2>3. expired' \subseteq 1..issued'
    BY <2>2 DEF TypeOK, Issues
  <2> QED
    BY <2>1, <2>2, <2>3, BecomeLegal DEF TypeOK
<1>3. ASSUME NEW i \in Issues, Expire(i) PROVE TypeOK'
  BY <1>3 DEF Expire, TypeOK
<1> QED
  BY <1>1, <1>2, <1>3 DEF Next

\* Every field of every request stays in its range, and the loop of
\* retryRequest never runs past numRetries.
THEOREM TypeCorrect == Safe => []TypeOK
BY TypeInit, TypeStep, PTL DEF Safe
-----------------------------------------------------------------------------
(* The attempts of one request *)

LEMMA CountedInit == Init => AttemptsBounded
<1> SUFFICES ASSUME Init, NEW c \in Callers PROVE Counted(call[c])
  BY DEF AttemptsBounded
<1>1. /\ call[c].pc = "idle" /\ call[c].failures = 0
  BY DEF Init, Fresh
<1>2. 0 <= NumRetries /\ 0 # NumRetries
  OBVIOUS
<1> QED
  BY <1>1, <1>2 DEF Counted

\* The steps that neither begin a request nor end an attempt.
Within(c) ==
  BackoffOver(c) \/ Headers(c) \/ Refused(c) \/ ReadToken(c) \/ Refreshed(c) \/ Store(c)

LEMMA WithinAttempt ==
  ASSUME TypeOK, NEW c \in Callers, Within(c)
  PROVE  /\ call[c].pc # "idle" /\ call'[c].pc # "idle"
         /\ call'[c].tryNum = call[c].tryNum /\ call'[c].failures = call[c].failures
         /\ call'[c].carried = call[c].carried /\ call'[c].kind = call[c].kind
<1>0. call[c] \in Call
  BY DEF TypeOK
<1>1. CASE BackoffOver(c)
  BY <1>0, <1>1, BecomeOnly DEF BackoffOver, Call
<1>2. CASE Headers(c)
  <2>1. call[c].pc # "idle" /\ call'[c] = [call[c] EXCEPT !.pc = "send", !.sent = stored]
    BY <1>2, BecomeOnly DEF Headers
  <2> QED
    BY <1>0, <2>1 DEF Call
<1>3. CASE Refused(c)
  <2>1. /\ call[c].pc # "idle"
        /\ call'[c] = [call[c] EXCEPT !.pc = "refresh", !.refused = call[c].sent, !.sent = 1]
    BY <1>3, BecomeOnly DEF Refused
  <2> QED
    BY <1>0, <2>1 DEF Call
<1>4. CASE ReadToken(c)
  BY <1>0, <1>4, BecomeOnly DEF ReadToken, Call
<1>5. CASE Refreshed(c)
  <2>1. call[c].pc # "idle" /\ call'[c] = [call[c] EXCEPT !.pc = "store", !.fresh = issued + 1]
    BY <1>5, BecomeOnly DEF Refreshed
  <2> QED
    BY <1>0, <2>1 DEF Call
<1>6. CASE Store(c)
  <2>1. call[c].pc # "idle" /\ call'[c] = [call[c] EXCEPT !.pc = "headers", !.fresh = 1]
    BY <1>6, BecomeOnly DEF Store
  <2> QED
    BY <1>0, <2>1 DEF Call
<1> QED
  BY <1>1, <1>2, <1>3, <1>4, <1>5, <1>6 DEF Within

\* A step within an attempt counts nothing.
LEMMA SameCount ==
  ASSUME NEW r, NEW q, Counted(r), r.pc # "idle", q.failures = r.failures,
         q.tryNum = r.tryNum, q.kind = r.kind
  PROVE  Counted(q) \/ q.pc = "idle"
<1>1. r.failures > 0 => \E outcome \in Outcomes : WantsRetry(q.kind, outcome)
  BY DEF Counted
<1>2. r.failures <= NumRetries /\ r.failures # NumRetries /\ r.failures = r.tryNum
  BY DEF Counted
<1> QED
  BY <1>1, <1>2 DEF Counted

\* The end of an attempt counts one failure, or ends the request with none.
LEMMA AttemptCounts ==
  ASSUME TypeOK, NEW c \in Callers, Counted(call[c]), call[c].pc = "send",
         NEW outcome \in Outcomes, NEW carried, NEW result \in {"value", "empty"},
         IF WantsRetry(call[c].kind, outcome) THEN TryAgain(c, carried)
         ELSE Return(c, call[c].failures, carried, result)
  PROVE  Counted(call'[c])
<1>0. /\ call[c] \in Call
      /\ call[c].tryNum \in Nat /\ call[c].tryNum < NumRetries
      /\ call[c].failures = call[c].tryNum
  BY DEF TypeOK, Call, Counted
<1>1. CASE ~WantsRetry(call[c].kind, outcome)
  <2>1. call'[c] = Fresh("idle", call[c].kind, call[c].failures, carried, result)
    BY <1>1, BecomeOnly DEF Return
  <2> QED
    BY <1>0, <2>1 DEF Counted, Fresh
<1>2. CASE WantsRetry(call[c].kind, outcome) /\ call[c].tryNum + 1 < NumRetries
  <2>1. call'[c] = [call[c] EXCEPT !.pc = "backoff", !.tryNum = call[c].tryNum + 1, !.sent = 1,
                                   !.failures = call[c].failures + 1, !.carried = carried]
    BY <1>2, BecomeOnly DEF TryAgain
  <2>2. /\ call'[c].pc = "backoff" /\ call'[c].kind = call[c].kind
        /\ call'[c].tryNum = call[c].tryNum + 1 /\ call'[c].failures = call[c].failures + 1
    BY <1>0, <2>1 DEF Call
  <2> QED
    BY <1>0, <1>2, <2>2 DEF Counted
<1>3. CASE WantsRetry(call[c].kind, outcome) /\ ~(call[c].tryNum + 1 < NumRetries)
  <2>1. call'[c] = Fresh("idle", call[c].kind, call[c].failures + 1, carried, "empty")
    BY <1>3, BecomeOnly DEF TryAgain, Return
  <2>2. call[c].failures + 1 = NumRetries
    BY <1>0, <1>3
  <2> QED
    BY <1>3, <2>1, <2>2 DEF Counted, Fresh
<1> QED
  BY <1>1, <1>2, <1>3

LEMMA CountedStep == TypeOK /\ AttemptsBounded /\ [Next]_vars => AttemptsBounded'
<1> SUFFICES ASSUME TypeOK, AttemptsBounded, [Next]_vars PROVE AttemptsBounded'
  OBVIOUS
<1>1. CASE UNCHANGED vars
  BY <1>1 DEF vars, AttemptsBounded
<1>2. ASSUME NEW c \in Callers, Step(c) \/ \E kind \in Kinds : Begin(c, kind)
      PROVE  AttemptsBounded'
  <2>0. Counted(call[c]) /\ call[c] \in Call /\ call[c].tryNum < NumRetries
    BY DEF AttemptsBounded, TypeOK
  <2>1. Counted(call'[c])
    <3>1. ASSUME NEW kind \in Kinds, Begin(c, kind) PROVE Counted(call'[c])
      BY <3>1, BecomeOnly DEF Begin, Counted, Fresh
    <3>2. ASSUME NEW outcome \in Outcomes, Answer(c, outcome) PROVE Counted(call'[c])
      BY <2>0, <3>2, AttemptCounts DEF Answer
    <3>3. CASE Lost(c)
      BY <2>0, <3>3, AttemptCounts DEF Lost, Outcomes
    <3>4. CASE RefreshFails(c)
      <4>1. call'[c] = Fresh("idle", call[c].kind, call[c].failures, call[c].carried, "empty")
        BY <3>4, BecomeOnly DEF RefreshFails, Return
      <4>2. call[c].failures = call[c].tryNum
        BY <2>0, <3>4 DEF RefreshFails, Counted
      <4> QED
        BY <2>0, <4>1, <4>2 DEF Counted, Fresh, Call
    <3>5. CASE Within(c)
      BY <2>0, <3>5, WithinAttempt, SameCount
    <3> QED
      BY <1>2, <3>1, <3>2, <3>3, <3>4, <3>5 DEF Step, Within
  <2>2. \A d \in Callers \ {c} : call'[d] = call[d]
    BY <1>2, StepIsLegal, BecomeOnly
  <2> QED
    BY <2>1, <2>2 DEF AttemptsBounded
<1>3. ASSUME NEW i \in Issues, Expire(i) PROVE AttemptsBounded'
  BY <1>3 DEF Expire, AttemptsBounded
<1> QED
  BY <1>1, <1>2, <1>3 DEF Next

\* However many refreshes come in between, a request is given up after exactly
\* numRetries failed attempts, and only if its kind asks for retries.
THEOREM AttemptsAreBounded == Safe => []AttemptsBounded
<1>1. TypeOK /\ AttemptsBounded /\ [Next]_vars => (TypeOK /\ AttemptsBounded)'
  BY TypeStep, CountedStep
<1> QED
  BY TypeInit, CountedInit, <1>1, PTL DEF Safe

-----------------------------------------------------------------------------
(* What the server carries out *)

LEMMA CarriedInit == Init => RepeatedOnlyByRetries
<1> SUFFICES ASSUME Init, NEW c \in Callers PROVE CarriedOutRight(call[c])
  BY DEF RepeatedOnlyByRetries
<1>1. call[c].pc = "idle" /\ call[c].carried = 0 /\ call[c].failures = 0
  BY DEF Init, Fresh
<1> QED
  BY <1>1 DEF CarriedOutRight

\* A step that ends no attempt, and a refresh that fails, carry nothing out.
LEMMA SameCarried ==
  ASSUME NEW r \in Call, NEW q, CarriedOutRight(r), r.pc # "idle",
         q.carried = r.carried, q.failures = r.failures, q.kind = r.kind
  PROVE  CarriedOutRight(q)
<1>1. r.carried \in Nat /\ r.failures \in Nat /\ r.carried <= r.failures
  BY DEF CarriedOutRight, Call
<1>2. q.carried <= q.failures + (IF q.pc = "idle" THEN 1 ELSE 0)
  BY <1>1
<1> QED
  BY <1>2 DEF CarriedOutRight

\* An attempt is carried out at most once, and counts as a failure if the request
\* goes on.
LEMMA AttemptCarries ==
  ASSUME TypeOK, NEW c \in Callers, Counted(call[c]), CarriedOutRight(call[c]),
         call[c].pc = "send", NEW outcome \in Outcomes, NEW result,
         NEW carried \in {call[c].carried, call[c].carried + 1},
         IF WantsRetry(call[c].kind, outcome) THEN TryAgain(c, carried)
         ELSE Return(c, call[c].failures, carried, result)
  PROVE  CarriedOutRight(call'[c])
<1>0. /\ call[c] \in Call
      /\ call[c].tryNum \in Nat /\ call[c].tryNum < NumRetries
      /\ call[c].failures = call[c].tryNum
      /\ call[c].carried \in Nat /\ call[c].carried <= call[c].failures
  BY DEF TypeOK, Call, Counted, CarriedOutRight
<1>1. /\ carried \in Nat /\ carried <= call[c].failures + 1
      /\ call[c].failures + 1 <= NumRetries
  BY <1>0
<1>2. carried > 1 => \E o \in Outcomes : WantsRetry(call[c].kind, o)
  BY <1>0, <1>1 DEF Counted
<1>3. CASE ~WantsRetry(call[c].kind, outcome)
  <2>1. call'[c] = Fresh("idle", call[c].kind, call[c].failures, carried, result)
    BY <1>3, BecomeOnly DEF Return
  <2>2. /\ call'[c].pc = "idle" /\ call'[c].carried = carried
        /\ call'[c].failures = call[c].failures /\ call'[c].kind = call[c].kind
    BY <2>1 DEF Fresh
  <2> QED
    BY <1>0, <1>1, <1>2, <2>2 DEF CarriedOutRight
<1>4. CASE WantsRetry(call[c].kind, outcome) /\ call[c].tryNum + 1 < NumRetries
  <2>1. call'[c] = [call[c] EXCEPT !.pc = "backoff", !.tryNum = call[c].tryNum + 1, !.sent = 1,
                                   !.failures = call[c].failures + 1, !.carried = carried]
    BY <1>4, BecomeOnly DEF TryAgain
  <2>2. /\ call'[c].pc = "backoff" /\ call'[c].carried = carried
        /\ call'[c].failures = call[c].failures + 1 /\ call'[c].kind = call[c].kind
    BY <1>0, <2>1 DEF Call
  <2> QED
    BY <1>0, <1>1, <1>2, <2>2 DEF CarriedOutRight
<1>5. CASE WantsRetry(call[c].kind, outcome) /\ ~(call[c].tryNum + 1 < NumRetries)
  <2>1. call'[c] = Fresh("idle", call[c].kind, call[c].failures + 1, carried, "empty")
    BY <1>5, BecomeOnly DEF TryAgain, Return
  <2>2. /\ call'[c].pc = "idle" /\ call'[c].carried = carried
        /\ call'[c].failures = call[c].failures + 1 /\ call'[c].kind = call[c].kind
    BY <2>1 DEF Fresh
  <2> QED
    BY <1>0, <1>1, <1>2, <2>2 DEF CarriedOutRight
<1> QED
  BY <1>3, <1>4, <1>5

LEMMA CarriedStep ==
  TypeOK /\ AttemptsBounded /\ RepeatedOnlyByRetries /\ [Next]_vars => RepeatedOnlyByRetries'
<1> SUFFICES ASSUME TypeOK, AttemptsBounded, RepeatedOnlyByRetries, [Next]_vars
             PROVE  RepeatedOnlyByRetries'
  OBVIOUS
<1>1. CASE UNCHANGED vars
  BY <1>1 DEF vars, RepeatedOnlyByRetries
<1>2. ASSUME NEW c \in Callers, Step(c) \/ \E kind \in Kinds : Begin(c, kind)
      PROVE  RepeatedOnlyByRetries'
  <2>0. Counted(call[c]) /\ CarriedOutRight(call[c]) /\ call[c] \in Call
    BY DEF AttemptsBounded, RepeatedOnlyByRetries, TypeOK
  <2>1. CarriedOutRight(call'[c])
    <3>1. ASSUME NEW kind \in Kinds, Begin(c, kind) PROVE CarriedOutRight(call'[c])
      <4>1. call'[c].pc = "headers" /\ call'[c].carried = 0 /\ call'[c].failures = 0
        BY <3>1, BecomeOnly DEF Begin, Fresh
      <4> QED
        BY <4>1 DEF CarriedOutRight
    <3>2. ASSUME NEW outcome \in Outcomes, Answer(c, outcome) PROVE CarriedOutRight(call'[c])
      BY <2>0, <3>2, AttemptCarries DEF Answer
    <3>3. CASE Lost(c)
      BY <2>0, <3>3, AttemptCarries DEF Lost, Outcomes
    <3>4. CASE RefreshFails(c)
      <4>1. call[c].pc # "idle"
        BY <3>4 DEF RefreshFails
      <4>2. call'[c] = Fresh("idle", call[c].kind, call[c].failures, call[c].carried, "empty")
        BY <3>4, BecomeOnly DEF RefreshFails, Return
      <4> QED
        BY <2>0, <4>1, <4>2, SameCarried DEF Fresh
    <3>5. CASE Within(c)
      BY <2>0, <3>5, WithinAttempt, SameCarried
    <3> QED
      BY <1>2, <3>1, <3>2, <3>3, <3>4, <3>5 DEF Step, Within
  <2>2. \A d \in Callers \ {c} : call'[d] = call[d]
    BY <1>2, StepIsLegal, BecomeOnly
  <2> QED
    BY <2>1, <2>2 DEF RepeatedOnlyByRetries
<1>3. ASSUME NEW i \in Issues, Expire(i) PROVE RepeatedOnlyByRetries'
  BY <1>3 DEF Expire, RepeatedOnlyByRetries
<1> QED
  BY <1>1, <1>2, <1>3 DEF Next

\* A mutation is repeated by retryRequest only: at most numRetries times, once
\* for each attempt that has failed and once more, whatever is refreshed.
THEOREM RepeatsAreRetries == Safe => []RepeatedOnlyByRetries
<1>1. TypeOK /\ AttemptsBounded /\ RepeatedOnlyByRetries /\ [Next]_vars =>
        (TypeOK /\ AttemptsBounded /\ RepeatedOnlyByRetries)'
  BY TypeStep, CountedStep, CarriedStep
<1> QED
  BY TypeInit, CountedInit, CarriedInit, <1>1, PTL DEF Safe

-----------------------------------------------------------------------------
(* The order of the credentials *)

LEMMA FlowInit == Init => IssuesFlowForward
<1> SUFFICES ASSUME Init PROVE IssuesFlowForward
  OBVIOUS
<1>1. \A c \in Callers : call[c].pc = "idle" /\ call[c].sent = 1 /\ call[c].refused = 0
  BY DEF Init, Fresh
<1> QED
  BY <1>1 DEF Init, IssuesFlowForward, NeverResendsRefused

\* What a step that neither makes nor stores credentials may leave in a caller's
\* request.
Quiet(old, new) ==
  /\ new.pc # "store"
  /\ new.sent \in {1, old.sent, stored}
  /\ new.refused \in {0, old.refused, old.sent}
  /\ new.pc \in {"backoff", "headers", "send"} => stored # new.refused
  /\ new.pc = "send" => new.sent # new.refused

LEMMA AttemptIsQuiet ==
  ASSUME TypeOK, IssuesFlowForward, NEW c \in Callers, call[c].pc = "send",
         NEW retries \in BOOLEAN, NEW carried, NEW result,
         IF retries THEN TryAgain(c, carried) ELSE Return(c, call[c].failures, carried, result)
  PROVE  Quiet(call[c], call'[c])
<1>0. call[c] \in Call /\ stored # call[c].refused
  BY DEF TypeOK, IssuesFlowForward
<1>1. CASE retries /\ call[c].tryNum + 1 < NumRetries
  <2>1. call'[c] = [call[c] EXCEPT !.pc = "backoff", !.tryNum = call[c].tryNum + 1, !.sent = 1,
                                   !.failures = call[c].failures + 1, !.carried = carried]
    BY <1>1, BecomeOnly DEF TryAgain
  <2>2. call'[c].pc = "backoff" /\ call'[c].sent = 1 /\ call'[c].refused = call[c].refused
    BY <1>0, <2>1 DEF Call
  <2> QED
    BY <1>0, <2>2 DEF Quiet
<1>2. CASE ~(retries /\ call[c].tryNum + 1 < NumRetries)
  <2>1. \E failures, verdict : call'[c] = Fresh("idle", call[c].kind, failures, carried, verdict)
    BY <1>2, BecomeOnly DEF TryAgain, Return
  <2> QED
    BY <2>1 DEF Fresh, Quiet
<1> QED
  BY <1>1, <1>2

LEMMA QuietSteps ==
  ASSUME TypeOK, IssuesFlowForward, NEW c \in Callers,
         Step(c) \/ \E kind \in Kinds : Begin(c, kind), ~Refreshed(c), ~Store(c)
  PROVE  Quiet(call[c], call'[c]) /\ UNCHANGED <<stored, issued>>
<1> SUFFICES Quiet(call[c], call'[c])
  BY DEF Step, Begin, BackoffOver, Headers, Answer, Lost, Refused, ReadToken, RefreshFails
<1>0. /\ call[c] \in Call /\ stored \in Issues
      /\ call[c].pc \in {"backoff", "headers", "send"} => stored # call[c].refused
  BY DEF TypeOK, IssuesFlowForward
<1>1. ASSUME NEW kind \in Kinds, Begin(c, kind) PROVE Quiet(call[c], call'[c])
  <2>1. call'[c] = Fresh("headers", kind, 0, 0, "none")
    BY <1>1, BecomeOnly DEF Begin
  <2>2. stored # 0
    BY <1>0 DEF Issues
  <2> QED
    BY <2>1, <2>2 DEF Fresh, Quiet
<1>2. CASE BackoffOver(c)
  <2>1. call[c].pc = "backoff" /\ call'[c] = [call[c] EXCEPT !.pc = "headers"]
    BY <1>2, BecomeOnly DEF BackoffOver
  <2> QED
    BY <1>0, <2>1 DEF Quiet, Call
<1>3. CASE Headers(c)
  <2>1. call[c].pc = "headers" /\ call'[c] = [call[c] EXCEPT !.pc = "send", !.sent = stored]
    BY <1>3, BecomeOnly DEF Headers
  <2>2. call'[c].pc = "send" /\ call'[c].sent = stored /\ call'[c].refused = call[c].refused
    BY <1>0, <2>1 DEF Call
  <2> QED
    BY <1>0, <2>1, <2>2 DEF Quiet
<1>4. ASSUME NEW outcome \in Outcomes, Answer(c, outcome) PROVE Quiet(call[c], call'[c])
  <2>1. WantsRetry(call[c].kind, outcome) \in BOOLEAN
    BY DEF WantsRetry
  <2> QED
    BY <1>4, <2>1, AttemptIsQuiet DEF Answer
<1>5. CASE Lost(c)
  <2>1. WantsRetry(call[c].kind, "nothing") \in BOOLEAN
    BY DEF WantsRetry
  <2> QED
    BY <1>5, <2>1, AttemptIsQuiet DEF Lost
<1>6. CASE Refused(c)
  <2>1. call'[c] = [call[c] EXCEPT !.pc = "refresh", !.refused = call[c].sent, !.sent = 1]
    BY <1>6, BecomeOnly DEF Refused
  <2>2. call'[c].pc = "refresh" /\ call'[c].sent = 1 /\ call'[c].refused = call[c].sent
    BY <1>0, <2>1 DEF Call
  <2> QED
    BY <2>2 DEF Quiet
<1>7. CASE ReadToken(c)
  <2>1. call'[c] = [call[c] EXCEPT !.pc = "refreshing"]
    BY <1>7, BecomeOnly DEF ReadToken
  <2> QED
    BY <1>0, <2>1 DEF Quiet, Call
<1>8. CASE RefreshFails(c)
  <2>1. call'[c] = Fresh("idle", call[c].kind, call[c].failures, call[c].carried, "empty")
    BY <1>8, BecomeOnly DEF RefreshFails, Return
  <2> QED
    BY <2>1 DEF Fresh, Quiet
<1> QED
  BY <1>1, <1>2, <1>3, <1>4, <1>5, <1>6, <1>7, <1>8 DEF Step

LEMMA FlowStep == TypeOK /\ IssuesFlowForward /\ [Next]_vars => IssuesFlowForward'
<1> SUFFICES ASSUME TypeOK, IssuesFlowForward, [Next]_vars PROVE IssuesFlowForward'
  OBVIOUS
<1>0. /\ issued \in Nat /\ stored \in Nat /\ 1 <= issued
      /\ \A d \in Callers : call[d] \in Call
  BY DEF TypeOK, Issues
<1>a. \A d \in Callers : call[d].sent \in Nat /\ call[d].refused \in Nat /\ call[d].fresh \in Nat
  BY <1>0 DEF Call, Issues
<1>1. CASE UNCHANGED vars
  BY <1>1 DEF vars, IssuesFlowForward, NeverResendsRefused
<1>2. ASSUME NEW i \in Issues, Expire(i) PROVE IssuesFlowForward'
  BY <1>2 DEF Expire, IssuesFlowForward, NeverResendsRefused
<1>3. ASSUME NEW c \in Callers, Step(c) \/ \E kind \in Kinds : Begin(c, kind)
      PROVE  IssuesFlowForward'
  <2>0. \A d \in Callers \ {c} : call'[d] = call[d]
    BY <1>3, StepIsLegal, BecomeOnly
  <2>1. CASE ~Refreshed(c) /\ ~Store(c)
    <3>1. Quiet(call[c], call'[c]) /\ UNCHANGED <<stored, issued>>
      BY <1>3, <2>1, QuietSteps
    <3> QED
      BY <1>0, <1>a, <2>0, <3>1 DEF Quiet, IssuesFlowForward, NeverResendsRefused
  <2>2. CASE Refreshed(c)
    <3>1. /\ call'[c] = [call[c] EXCEPT !.pc = "store", !.fresh = issued + 1]
          /\ issued' = issued + 1 /\ stored' = stored
      BY <2>2, BecomeOnly DEF Refreshed
    <3>2. /\ call'[c].pc = "store" /\ call'[c].fresh = issued + 1
          /\ call'[c].sent = call[c].sent /\ call'[c].refused = call[c].refused
      BY <1>0, <3>1 DEF Call
    <3>3. \A d \in Callers : /\ call'[d].sent = call[d].sent /\ call'[d].refused = call[d].refused
                             /\ d # c => call'[d].pc = call[d].pc /\ call'[d].fresh = call[d].fresh
      BY <2>0, <3>2
    <3>4. \A d \in Callers : call[d].sent <= issued /\ call[d].refused <= issued
      BY DEF IssuesFlowForward
    <3>5. ASSUME NEW d \in Callers, call'[d].pc = "store"
          PROVE  /\ 1 < call'[d].fresh /\ call'[d].fresh <= issued' /\ call'[d].fresh # stored'
                 /\ \A e \in Callers : call'[e].sent # call'[d].fresh /\ call'[e].refused # call'[d].fresh
                 /\ \A e \in Callers \ {d} : call'[e].pc = "store" => call'[e].fresh # call'[d].fresh
      <4>1. stored <= issued /\ \A e \in Callers : call[e].pc = "store" => call[e].fresh <= issued
        BY DEF IssuesFlowForward
      <4>2. CASE d = c
        <5>1. call'[d].fresh = issued + 1 /\ issued' = issued + 1 /\ stored' = stored
          BY <3>1, <3>2, <4>2
        <5>2. \A e \in Callers : call'[e].sent # issued + 1 /\ call'[e].refused # issued + 1
          BY <1>0, <1>a, <3>3, <3>4
        <5>3. \A e \in Callers \ {d} : call'[e].pc = "store" => call'[e].fresh # issued + 1
          BY <1>0, <1>a, <3>3, <4>1, <4>2
        <5>4. 1 < issued + 1 /\ issued + 1 <= issued' /\ issued + 1 # stored
          BY <1>0, <3>1, <4>1
        <5> QED
          BY <5>1, <5>2, <5>3, <5>4
      <4>3. CASE d # c
        <5>1. call[d].pc = "store" /\ call'[d].fresh = call[d].fresh
          BY <3>3, <3>5, <4>3
        <5>2. 1 < call[d].fresh /\ call[d].fresh <= issued /\ call[d].fresh # stored
          BY <5>1 DEF IssuesFlowForward
        <5>3. call[d].fresh <= issued' /\ call[d].fresh # stored' /\ call[d].fresh # issued + 1
          BY <1>0, <1>a, <3>1, <5>2
        <5>4. \A e \in Callers : call[e].sent # call[d].fresh /\ call[e].refused # call[d].fresh
          BY <5>1 DEF IssuesFlowForward
        <5>5. ASSUME NEW e \in Callers \ {d}, call'[e].pc = "store"
              PROVE  call'[e].fresh # call[d].fresh
          <6>1. CASE e = c
            BY <3>2, <5>3, <6>1
          <6>2. CASE e # c
            <7>1. call[e].pc = "store" /\ call'[e].fresh = call[e].fresh
              BY <3>3, <5>5, <6>2
            <7> QED
              BY <5>1, <7>1 DEF IssuesFlowForward
          <6> QED
            BY <6>1, <6>2
        <5> QED
          BY <3>3, <5>1, <5>2, <5>3, <5>4, <5>5
      <4> QED
        BY <4>2, <4>3
    <3>6. /\ stored' <= issued'
          /\ \A d \in Callers : call'[d].sent <= issued' /\ call'[d].refused <= issued'
      BY <1>0, <1>a, <3>1, <3>3, <3>4 DEF IssuesFlowForward
    <3>7. \A d \in Callers : /\ call'[d].pc \in {"backoff", "headers", "send"} => stored' # call'[d].refused
                             /\ call'[d].pc = "send" => call'[d].sent # call'[d].refused
      BY <3>1, <3>2, <3>3 DEF IssuesFlowForward, NeverResendsRefused
    <3> QED
      BY <3>5, <3>6, <3>7 DEF IssuesFlowForward, NeverResendsRefused
  <2>3. CASE Store(c)
    <3>1. /\ call[c].pc = "store" /\ call'[c] = [call[c] EXCEPT !.pc = "headers", !.fresh = 1]
          /\ stored' = call[c].fresh /\ issued' = issued
      BY <2>3, BecomeOnly DEF Store
    <3>2. /\ call'[c].pc = "headers" /\ call'[c].sent = call[c].sent
          /\ call'[c].refused = call[c].refused
      BY <1>0, <3>1 DEF Call
    <3>3. \A d \in Callers : /\ call'[d].sent = call[d].sent /\ call'[d].refused = call[d].refused
                             /\ d # c => call'[d].pc = call[d].pc /\ call'[d].fresh = call[d].fresh
      BY <2>0, <3>2
    <3>4. /\ stored' <= issued'
          /\ \A d \in Callers : call'[d].sent <= issued' /\ call'[d].refused <= issued'
      BY <3>1, <3>3 DEF IssuesFlowForward
    <3>5. \A d \in Callers : stored' # call'[d].refused
      BY <3>1, <3>3 DEF IssuesFlowForward
    <3>6. \A d \in Callers : call'[d].pc = "store" => d # c /\ call[d].pc = "store"
      BY <3>2, <3>3
    <3>7. \A d \in Callers : call'[d].pc = "send" => d # c /\ call[d].pc = "send"
      BY <3>2, <3>3
    <3>8. ASSUME NEW d \in Callers, call'[d].pc = "store"
          PROVE  /\ 1 < call'[d].fresh /\ call'[d].fresh <= issued' /\ call'[d].fresh # stored'
                 /\ \A e \in Callers : call'[e].sent # call'[d].fresh /\ call'[e].refused # call'[d].fresh
                 /\ \A e \in Callers \ {d} : call'[e].pc = "store" => call'[e].fresh # call'[d].fresh
      BY <3>1, <3>3, <3>6, <3>8 DEF IssuesFlowForward
    <3> QED
      BY <3>3, <3>4, <3>5, <3>7, <3>8 DEF IssuesFlowForward, NeverResendsRefused
  <2> QED
    BY <2>1, <2>2, <2>3
<1> QED
  BY <1>1, <1>2, <1>3 DEF Next

\* Credentials flow one way, whichever callers refresh them and in whatever
\* order the results are stored: what a refresh brings is new to everyone.
THEOREM CredentialsFlowForward == Safe => []IssuesFlowForward
<1>1. TypeOK /\ IssuesFlowForward /\ [Next]_vars => (TypeOK /\ IssuesFlowForward)'
  BY TypeStep, FlowStep
<1> QED
  BY TypeInit, FlowInit, <1>1, PTL DEF Safe

\* No request is sent twice with credentials it was refused with.
THEOREM RefusedIsNotResent == Safe => []NeverResendsRefused
<1>1. IssuesFlowForward => NeverResendsRefused
  BY DEF IssuesFlowForward
<1> QED
  BY CredentialsFlowForward, <1>1, PTL
=============================================================================
