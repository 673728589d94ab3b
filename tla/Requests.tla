------------------------------ MODULE Requests ------------------------------
(***************************************************************************)
(* The HTTP requests of src/src/rest-api.cpp: retryRequest, the verdict    *)
(* each request function reaches on the answer it gets, and the refresh of *)
(* the SharedCredentials all of them read.                                 *)
(*                                                                         *)
(* Several callers have a request under way at once: the worker and the    *)
(* snapshot thread of a broadcast, the websocket thread, the main thread.  *)
(* The mutex of the credentials is held to read them and to write them,    *)
(* never across a request, so each of those is one step.  A set of         *)
(* credentials is its issue number at the server; the server may stop      *)
(* accepting an issue at any time.                                         *)
(***************************************************************************)
EXTENDS Naturals

CONSTANTS
  Callers,     \* threads that make requests
  NumRetries,  \* numRetries: 3
  MaxIssue     \* the server issues no more credentials than this

ASSUME NumRetriesAssumption == NumRetries \in Nat \ {0}
ASSUME MaxIssueAssumption == MaxIssue \in Nat \ {0}

VARIABLES
  stored,   \* the issue SharedCredentials holds
  issued,   \* how many issues the server has made
  expired,  \* those it refuses
  call      \* each caller's request

vars == <<stored, issued, expired, call>>

Issues == 1..MaxIssue

Kinds ==
  {"graphql",    \* doGraphqlRawRequest
   "upload",     \* doUpdateSnapshot, doUpdateSnapshotFile
   "plain",      \* doHeartbeatStream, doGetPreviewImage, doGetUserInfo, doCategoryList
   "version",    \* doCheckMinimumSupportedVersion, doCheckLatestVersion
   "authorize"}  \* doSignIn, doRefreshAuth of a saved token

Authenticated == {"graphql", "upload", "plain"}

\* What can become of a request that is not refused for its credentials.
Outcomes ==
  {"answered",    \* an answer the function can use, errors it names included
   "unreadable",  \* an answer it cannot parse
   "error",       \* a status outside 2xx (for "plain", other than 200)
   "nothing"}     \* curl failed, or timed out

Call == [pc : {"idle", "backoff", "headers", "send", "refresh", "refreshing", "store"},
         kind : Kinds,
         tryNum : Nat,
         sent : Issues,            \* the issue in the headers, or 1
         refused : Issues \cup {0},  \* the last issue answered 401 in this call
         fresh : Issues,           \* the issue a refresh has brought, or 1
         failures : Nat,           \* attempts that have failed in this call
         carried : Nat,            \* how often the server has carried it out
         result : {"none", "value", "empty"}]

TypeOK ==
  /\ stored \in Issues
  /\ issued \in Issues
  /\ expired \subseteq 1..issued
  /\ call \in [Callers -> Call]
  /\ \A c \in Callers : call[c].tryNum < NumRetries

\* A request before its first attempt, or after its last one.
Fresh(pc, kind, failures, carried, result) ==
  [pc |-> pc, kind |-> kind, tryNum |-> 0, sent |-> 1, refused |-> 0, fresh |-> 1,
   failures |-> failures, carried |-> carried, result |-> result]

Init ==
  /\ stored = 1
  /\ issued = 1
  /\ expired = {}
  /\ call = [c \in Callers |-> Fresh("idle", "graphql", 0, 0, "none")]

-----------------------------------------------------------------------------
(* retryRequest *)

\* The verdict of the request functions: Retry or Complete.
WantsRetry(kind, outcome) ==
  \/ kind \in {"graphql", "upload"} /\ outcome \in {"nothing", "error"}
  \/ kind = "version" /\ outcome \in {"nothing", "unreadable"}

\* Uploads look at the status only, the version checks never do.
HasOutcome(kind, outcome) ==
  CASE kind = "upload"  -> outcome # "unreadable"
    [] kind = "version" -> outcome # "error"
    [] OTHER            -> TRUE

Become(c, record) == call' = [call EXCEPT ![c] = record]

Return(c, failures, carried, result) ==
  Become(c, Fresh("idle", call[c].kind, failures, carried, result))

\* Mutant: the attempts are not counted.
TryForEver(c, carried) == Become(c, [call[c] EXCEPT !.pc = "backoff"])

\* The next turn of the loop, after a pause, or its end.
TryAgain(c, carried) ==
  IF call[c].tryNum + 1 < NumRetries
  THEN Become(c, [call[c] EXCEPT !.pc = "backoff", !.tryNum = call[c].tryNum + 1, !.sent = 1,
                                 !.failures = call[c].failures + 1, !.carried = carried])
  ELSE Return(c, call[c].failures + 1, carried, "empty")

Begin(c, kind) ==
  /\ call[c].pc = "idle"
  /\ Become(c, Fresh("headers", kind, 0, 0, "none"))
  /\ UNCHANGED <<stored, issued, expired>>

BackoffOver(c) ==
  /\ call[c].pc = "backoff"
  /\ Become(c, [call[c] EXCEPT !.pc = "headers"])
  /\ UNCHANGED <<stored, issued, expired>>

-----------------------------------------------------------------------------
(* One attempt *)

\* authenticatedHeaders: token and credential are read under one lock.
Headers(c) ==
  /\ call[c].pc = "headers"
  /\ Become(c, [call[c] EXCEPT !.pc = "send", !.sent = stored])
  /\ UNCHANGED <<stored, issued, expired>>

\* The attempt ends; what it returns is what the last answer was.  Whatever that
\* says, the server may have carried the request out or not.
Answer(c, outcome) ==
  /\ call[c].pc = "send"
  /\ call[c].kind \in Authenticated => call[c].sent \notin expired
  /\ HasOutcome(call[c].kind, outcome)
  /\ \E carried \in {call[c].carried, call[c].carried + 1} :
       IF WantsRetry(call[c].kind, outcome) THEN TryAgain(c, carried)
       ELSE Return(c, call[c].failures, carried, IF outcome = "answered" THEN "value" ELSE "empty")
  /\ UNCHANGED <<stored, issued, expired>>

\* A request with expired credentials may get no answer as well, and may have
\* been carried out before they expired.
Lost(c) ==
  /\ call[c].pc = "send"
  /\ call[c].kind \in Authenticated /\ call[c].sent \in expired
  /\ \E carried \in {call[c].carried, call[c].carried + 1} :
       IF WantsRetry(call[c].kind, "nothing") THEN TryAgain(c, carried)
       ELSE Return(c, call[c].failures, carried, "empty")
  /\ UNCHANGED <<stored, issued, expired>>

\* 401: refreshCredentials.
Refused(c) ==
  /\ call[c].pc = "send"
  /\ call[c].kind \in Authenticated /\ call[c].sent \in expired
  /\ Become(c, [call[c] EXCEPT !.pc = "refresh", !.refused = call[c].sent, !.sent = 1])
  /\ UNCHANGED <<stored, issued, expired>>

-----------------------------------------------------------------------------
(* refreshCredentials *)

\* The refresh token is read under the lock, which is then released.
ReadToken(c) ==
  /\ call[c].pc = "refresh"
  /\ Become(c, [call[c] EXCEPT !.pc = "refreshing"])
  /\ UNCHANGED <<stored, issued, expired>>

\* The server issues new credentials...
Refreshed(c) ==
  /\ call[c].pc = "refreshing"
  /\ issued < MaxIssue
  /\ issued' = issued + 1
  /\ Become(c, [call[c] EXCEPT !.pc = "store", !.fresh = issued + 1])
  /\ UNCHANGED <<stored, expired>>

\* ... or does not: doRefreshAuth never asks for a retry, and neither does the
\* request.
RefreshFails(c) ==
  /\ call[c].pc = "refreshing"
  /\ Return(c, call[c].failures, call[c].carried, "empty")
  /\ UNCHANGED <<stored, issued, expired>>

\* Mutant: the new credentials are not stored.
StoreForgotten(c) ==
  /\ call[c].pc = "store"
  /\ Become(c, [call[c] EXCEPT !.pc = "headers"])
  /\ UNCHANGED <<stored, issued, expired>>

\* Mutant: the attempts are counted anew after a refresh.
StoreCountsAnew(c) ==
  /\ call[c].pc = "store"
  /\ stored' = call[c].fresh
  /\ Become(c, [call[c] EXCEPT !.pc = "headers", !.tryNum = 0])
  /\ UNCHANGED <<issued, expired>>

\* They are stored, over whatever another caller has stored meanwhile, and the
\* request function calls itself: the same turn of the loop.
Store(c) ==
  /\ call[c].pc = "store"
  /\ stored' = call[c].fresh
  /\ Become(c, [call[c] EXCEPT !.pc = "headers", !.fresh = 1])
  /\ UNCHANGED <<issued, expired>>

-----------------------------------------------------------------------------

Step(c) ==
  \/ BackoffOver(c) \/ Headers(c)
  \/ \E outcome \in Outcomes : Answer(c, outcome)
  \/ Lost(c) \/ Refused(c)
  \/ ReadToken(c) \/ Refreshed(c) \/ RefreshFails(c) \/ Store(c)

\* The server stops accepting an issue.
Expire(i) ==
  /\ i \in 1..issued \ expired
  /\ expired' = expired \cup {i}
  /\ UNCHANGED <<stored, issued, call>>

Next ==
  \/ \E c \in Callers : Step(c) \/ \E kind \in Kinds : Begin(c, kind)
  \/ \E i \in Issues : Expire(i)

\* Every thread with a request under way goes on: curl gives up on a server
\* that is too slow.
Fairness == \A c \in Callers : WF_vars(Step(c))

Safe == Init /\ [][Next]_vars

Spec == Safe /\ Fairness

-----------------------------------------------------------------------------
(* Properties *)

\* After a 401 and a refresh, a request is never sent again with the very
\* credentials that were refused, whatever other callers store in between: a
\* refresh that overwrites another one stores credentials that were not yet
\* stored before.
NeverResendsRefused ==
  \A c \in Callers : call[c].pc = "send" => call[c].sent # call[c].refused

\* Why that is so: no number of an issue is used before the server has made
\* it; what a refresh has brought has not been stored, sent or refused anywhere
\* yet, and nobody else brings the same; and once a caller's own refresh is
\* stored, the credentials it was refused with never come back.
IssuesFlowForward ==
  /\ stored <= issued
  /\ \A c \in Callers : call[c].sent <= issued /\ call[c].refused <= issued
  /\ \A c \in Callers : call[c].pc = "store" =>
       /\ 1 < call[c].fresh /\ call[c].fresh <= issued
       /\ call[c].fresh # stored
       /\ \A d \in Callers : call[d].sent # call[c].fresh /\ call[d].refused # call[c].fresh
       /\ \A d \in Callers \ {c} : call[d].pc = "store" => call[d].fresh # call[c].fresh
  /\ \A c \in Callers : call[c].pc \in {"backoff", "headers", "send"} => stored # call[c].refused
  /\ NeverResendsRefused

\* What the attempts of one request have come to.
Counted(r) ==
  /\ r.failures <= NumRetries
  /\ r.pc # "idle" => r.failures = r.tryNum
  /\ r.failures > 0 => \E outcome \in Outcomes : WantsRetry(r.kind, outcome)
  /\ r.failures = NumRetries => r.pc = "idle" /\ r.result = "empty"

\* Every failed attempt is counted, no matter how many refreshes come in
\* between: a request is given up after NumRetries of them and not before, and
\* only kinds that retry ever fail an attempt without giving up.
AttemptsBounded == \A c \in Callers : Counted(call[c])

\* How often the server may have carried one request out.
CarriedOutRight(r) ==
  /\ r.carried <= r.failures + (IF r.pc = "idle" THEN 1 ELSE 0)
  /\ r.carried <= NumRetries
  /\ r.carried > 1 => \E outcome \in Outcomes : WantsRetry(r.kind, outcome)

\* A mutation whose answer was lost is sent again, so StartBroadcast or AddFeed
\* may be carried out more than once; but never more than NumRetries times,
\* only once for each attempt that has failed and once for the last, and never
\* because of a 401 or a refresh.  What is not retried is never repeated.
RepeatedOnlyByRetries == \A c \in Callers : CarriedOutRight(call[c])

\* Every request returns, as long as the server does not refuse each of the
\* credentials it issues for ever.
EveryCallReturns ==
  \A c \in Callers : call[c].pc # "idle" ~> call[c].pc = "idle"
=============================================================================
