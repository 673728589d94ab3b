-------------------------- MODULE StageSubscription --------------------------
(***************************************************************************)
(* The connections behind Broadcast::subscription_: GraphqlSubscription    *)
(* (src/src/websocket-api.hpp) on top of WebsocketClient                   *)
(* (src/src/websocket-api.cpp), as Broadcast::setupSubscription uses them. *)
(*                                                                         *)
(* A subscription object is held by subscription_, and by the websocket    *)
(* thread for the time of a handler; the last of them to let go runs its   *)
(* destructor, which closes its connection.  The handlers of a connection  *)
(* know its subscription by a weak pointer.  The worker thread makes the   *)
(* first subscription, the websocket thread every other one, and stop()    *)
(* on the application thread resets subscription_ whenever it likes.       *)
(*                                                                         *)
(* Subscriptions and connections that nothing refers to any more are used  *)
(* again, so that reconnections are not counted.                           *)
(***************************************************************************)
EXTENDS Naturals, FiniteSets

CONSTANTS
  Subs,   \* GraphqlSubscription objects
  Conns,  \* websocketpp connections
  NoSub, NoConn

ASSUME NoneAssumption == NoSub \notin Subs /\ NoConn \notin Conns

VARIABLES
  subscription,  \* Broadcast::subscription_
  locked,        \* the subscription a handler's strong pointer holds
  connection,    \* connection_ of each subscription
  connState,     \* where each connection stands
  connSub,       \* the subscription its handlers point to, weakly
  inited,        \* connection_init and the subscription have been sent on it
  call,          \* what each thread is doing in setupSubscription or connect()
  stopped,       \* broadcastState_ is Stopping or Offline for good
  client,        \* the WebsocketClient: "up", its destructor "joining", "gone"
  overtaken,     \* a connection had an event before connect() had stored it
  fault          \* a thread used a subscription that is not there

vars == <<subscription, locked, connection, connState, connSub, inited, call,
          stopped, client, overtaken, fault>>

conns == <<connState, connSub, inited>>

Threads == {"worker", "ws"}

Idle == [pc |-> "idle", sub |-> NoSub, conn |-> NoConn]

TypeOK ==
  /\ subscription \in Subs \cup {NoSub}
  /\ locked \in Subs \cup {NoSub}
  /\ connection \in [Subs -> Conns \cup {NoConn}]
  /\ connState \in [Conns -> {"none", "connecting", "open", "closing"}]
  /\ connSub \in [Conns -> Subs \cup {NoSub}]
  /\ inited \in [Conns -> BOOLEAN]
  /\ call \in [Threads -> [pc : {"idle", "assign", "connect", "store", "backoff"},
                           sub : Subs \cup {NoSub},
                           conn : Conns \cup {NoConn}]]
  /\ stopped \in BOOLEAN
  /\ client \in {"up", "joining", "gone"}
  /\ overtaken \in BOOLEAN
  /\ fault \in BOOLEAN
  \* a handler of the websocket thread holds its subscription until it returns
  /\ locked = NoSub <=> call["ws"].pc = "idle"

Init ==
  /\ subscription = NoSub
  /\ locked = NoSub
  /\ connection = [s \in Subs |-> NoConn]
  /\ connState = [c \in Conns |-> "none"]
  /\ connSub = [c \in Conns |-> NoSub]
  /\ inited = [c \in Conns |-> FALSE]
  /\ call = [t \in Threads |-> IF t = "worker" THEN [Idle EXCEPT !.pc = "assign"] ELSE Idle]
  /\ stopped = FALSE
  /\ client = "up"
  /\ overtaken = FALSE
  /\ fault = FALSE

-----------------------------------------------------------------------------
(* Objects and connections *)

\* weak_ptr::lock() of this subscription would succeed.
Alive(s) == s # NoSub /\ s \in {subscription, locked}

\* Ids that nothing in the program refers to.
FreeConns == {c \in Conns : /\ connState[c] = "none"
                            /\ \A s \in Subs : Alive(s) => connection[s] # c
                            /\ \A t \in Threads : call[t].conn # c}

FreeSubs == {s \in Subs : /\ ~Alive(s)
                          /\ \A c \in Conns : connState[c] # "none" => connSub[c] # s
                          /\ \A t \in Threads : call[t].sub # s}

\* WebsocketClient::close: the library closes what is open and answers
\* "invalid state" for the rest, a connection still connecting included.
Close(state, c) ==
  IF c \in Conns /\ state[c] = "open" THEN [state EXCEPT ![c] = "closing"] ELSE state

\* Mutant: the destructor does not disconnect.
DestroyOnly(state, s) == state

\* ~GraphqlSubscription, run by whoever drops the last strong pointer.
Destroy(state, s) == IF s \in Subs THEN Close(state, connection[s]) ELSE state

\* The websocket thread is back in its event loop, its strong pointer dropped.
HandlerReturns ==
  /\ call' = [call EXCEPT !["ws"] = Idle]
  /\ locked' = NoSub
  /\ connState' = IF locked # subscription THEN Destroy(connState, locked) ELSE connState

-----------------------------------------------------------------------------
(* setupSubscription, on either thread *)

\* Mutant: the old object is dropped and no new one made.
DropOnly(t, s) ==
  /\ call[t].pc = "assign"
  /\ s \in FreeSubs
  /\ subscription' = NoSub
  /\ connState' = IF subscription # locked THEN Destroy(connState, subscription) ELSE connState
  /\ call' = [call EXCEPT ![t].pc = "connect"]
  /\ UNCHANGED <<locked, connection, connSub, inited, stopped, client, overtaken, fault>>

\* subscription_ = make_shared: the old object goes, unless a handler holds it.
Assign(t, s) ==
  /\ call[t].pc = "assign"
  /\ s \in FreeSubs
  /\ subscription' = s
  /\ connState' = IF subscription # locked THEN Destroy(connState, subscription) ELSE connState
  /\ connection' = [connection EXCEPT ![s] = NoConn]
  /\ call' = [call EXCEPT ![t].pc = "connect"]
  /\ UNCHANGED <<locked, connSub, inited, stopped, client, overtaken, fault>>

\* The object connect() is called on: the websocket thread's own when it
\* reconnects after a refresh, else whatever subscription_ points to by now.
Target(t) == IF call[t].sub # NoSub THEN call[t].sub ELSE subscription

\* Mutant: connect() leaves the old connection open.
ConnectOnly(t, c) ==
  /\ call[t].pc = "connect"
  /\ Target(t) # NoSub
  /\ c \in FreeConns
  /\ connState' = [connState EXCEPT ![c] = "connecting"]
  /\ connSub' = [connSub EXCEPT ![c] = Target(t)]
  /\ inited' = [inited EXCEPT ![c] = FALSE]
  /\ call' = [call EXCEPT ![t] = [pc |-> "store", sub |-> Target(t), conn |-> c]]
  /\ UNCHANGED <<subscription, locked, connection, stopped, client, overtaken, fault>>

\* connect(): disconnect(), then a new connection starts connecting...
Connect(t, c) ==
  /\ call[t].pc = "connect"
  /\ Target(t) # NoSub
  /\ c \in FreeConns
  /\ connState' = [Close(connState, connection[Target(t)]) EXCEPT ![c] = "connecting"]
  /\ connSub' = [connSub EXCEPT ![c] = Target(t)]
  /\ inited' = [inited EXCEPT ![c] = FALSE]
  /\ connection' = [connection EXCEPT ![Target(t)] = NoConn]
  /\ call' = [call EXCEPT ![t] = [pc |-> "store", sub |-> Target(t), conn |-> c]]
  /\ UNCHANGED <<subscription, locked, stopped, client, overtaken, fault>>

\* ... or cannot be made, and nothing will ever be heard of it.
ConnectRefused(t) ==
  /\ call[t].pc = "connect"
  /\ Target(t) # NoSub
  /\ call' = [call EXCEPT ![t] = [pc |-> "store", sub |-> Target(t), conn |-> NoConn]]
  /\ connState' = Close(connState, connection[Target(t)])
  /\ connection' = [connection EXCEPT ![Target(t)] = NoConn]
  /\ UNCHANGED <<subscription, locked, connSub, inited, stopped, client, overtaken, fault>>

ConnectOnNull(t) ==
  /\ call[t].pc = "connect"
  /\ Target(t) = NoSub
  /\ fault' = TRUE
  /\ UNCHANGED <<subscription, locked, connection, conns, call, stopped, client, overtaken>>

\* connection_ = what client_.connect returned, and the caller returns.
Store(t) ==
  /\ call[t].pc = "store"
  /\ Alive(call[t].sub)
  /\ connection' = [connection EXCEPT ![call[t].sub] = call[t].conn]
  /\ IF t = "ws"
     THEN /\ call' = [call EXCEPT !["ws"] = Idle]
          /\ locked' = NoSub
          /\ connState' =
               IF locked = subscription THEN connState
               ELSE IF locked = call[t].sub THEN Close(connState, call[t].conn)
               ELSE Destroy(connState, locked)
     ELSE /\ call' = [call EXCEPT ![t] = Idle]
          /\ UNCHANGED <<locked, connState>>
  /\ UNCHANGED <<subscription, connSub, inited, stopped, client, overtaken, fault>>

\* Its object has been destroyed under connect().
StoreIntoNothing(t) ==
  /\ call[t].pc = "store"
  /\ ~Alive(call[t].sub)
  /\ fault' = TRUE
  /\ UNCHANGED <<subscription, locked, connection, conns, call, stopped, client, overtaken>>

-----------------------------------------------------------------------------
(* The websocket thread: one event of one connection at a time *)

WsIdle == call["ws"].pc = "idle"

NotStored(c) == call["worker"].pc = "store" /\ call["worker"].conn = c

\* The subscription is requested, if it is still there.
Opened(c) ==
  /\ WsIdle
  /\ connState[c] = "connecting"
  /\ connState' = [connState EXCEPT ![c] = "open"]
  /\ inited' = [inited EXCEPT ![c] = Alive(connSub[c])]
  /\ overtaken' = (overtaken \/ NotStored(c))
  /\ UNCHANGED <<subscription, locked, connection, connSub, call, stopped, client, fault>>

\* Mutant: the ended handler connects the same object again.
EndedReconnects(c) ==
  /\ WsIdle
  /\ connState[c] # "none"
  /\ connState' = [connState EXCEPT ![c] = "none"]
  /\ overtaken' = (overtaken \/ NotStored(c))
  /\ IF Alive(connSub[c]) /\ ~stopped
     THEN /\ locked' = connSub[c]
          /\ call' = [call EXCEPT !["ws"] =
                        [pc |-> "connect", sub |-> connSub[c], conn |-> NoConn]]
     ELSE UNCHANGED <<locked, call>>
  /\ UNCHANGED <<subscription, connection, connSub, inited, stopped, client, fault>>

\* A connection that has not opened fails, any other one is closed, by either
\* side or by the network.  A subscription that is still there has its ended
\* handler called, which subscribes again, after a pause if it failed.
Ended(c) ==
  /\ WsIdle
  /\ connState[c] # "none"
  /\ connState' = [connState EXCEPT ![c] = "none"]
  /\ overtaken' = (overtaken \/ NotStored(c))
  /\ IF Alive(connSub[c]) /\ ~stopped
     THEN /\ locked' = connSub[c]
          /\ call' = [call EXCEPT !["ws"].pc =
                        IF connState[c] = "connecting" THEN "backoff" ELSE "assign"]
     ELSE UNCHANGED <<locked, call>>
  /\ UNCHANGED <<subscription, connection, connSub, inited, stopped, client, fault>>

BackoffOver ==
  /\ call["ws"].pc = "backoff"
  /\ IF stopped
     THEN HandlerReturns
     ELSE call' = [call EXCEPT !["ws"].pc = "assign"] /\ UNCHANGED <<locked, connState>>
  /\ UNCHANGED <<subscription, connection, connSub, inited, stopped, client, overtaken, fault>>

\* "credential expired", and the refresh works: the same object reconnects.
\* Data frames of a connection that is closing are not delivered.
CredentialExpired(c) ==
  /\ WsIdle
  /\ connState[c] = "open"
  /\ inited[c]
  /\ Alive(connSub[c])
  /\ locked' = connSub[c]
  /\ call' = [call EXCEPT !["ws"] = [pc |-> "connect", sub |-> connSub[c], conn |-> NoConn]]
  /\ overtaken' = (overtaken \/ NotStored(c))
  /\ UNCHANGED <<subscription, connection, conns, stopped, client, fault>>

-----------------------------------------------------------------------------
(* The application thread *)

\* Broadcast::stop(): subscription_ = nullptr.
Stop ==
  /\ ~stopped
  /\ stopped' = TRUE
  /\ subscription' = NoSub
  /\ connState' = IF subscription # locked THEN Destroy(connState, subscription) ELSE connState
  /\ UNCHANGED <<locked, connection, connSub, inited, call, client, overtaken, fault>>

\* ~Broadcast, once the worker has been joined and no handler holds the
\* Broadcast: subscription_ goes before websocketClient_, whose destructor
\* lets the event loop end when it has nothing left to do...
DestroyBroadcast ==
  /\ stopped
  /\ client = "up"
  /\ call["worker"].pc = "idle"
  /\ call["ws"].pc \in {"idle", "backoff"}
  /\ client' = "joining"
  /\ subscription' = NoSub
  /\ connState' = IF subscription # locked THEN Destroy(connState, subscription) ELSE connState
  /\ UNCHANGED <<locked, connection, connSub, inited, call, stopped, overtaken, fault>>

\* ... and joins it.
Join ==
  /\ client = "joining"
  /\ WsIdle
  /\ \A c \in Conns : connState[c] = "none"
  /\ client' = "gone"
  /\ UNCHANGED <<subscription, locked, connection, conns, call, stopped, overtaken, fault>>

-----------------------------------------------------------------------------

\* A free name: one is as good as another.
Some(free) == CHOOSE name \in free : TRUE

Setup(t) ==
  \/ FreeSubs # {} /\ Assign(t, Some(FreeSubs))
  \/ FreeConns # {} /\ Connect(t, Some(FreeConns))
  \/ ConnectRefused(t) \/ ConnectOnNull(t) \/ Store(t) \/ StoreIntoNothing(t)

Next ==
  /\ ~fault
  /\ \/ \E t \in Threads : Setup(t)
     \/ \E c \in Conns : Opened(c) \/ Ended(c) \/ CredentialExpired(c)
     \/ BackoffOver
     \/ Stop \/ DestroyBroadcast \/ Join

\* Threads go on, and the library ends every connection that is connecting
\* (it opens or fails) or closing (its close handshake has a time-out).  A
\* connection that is open may stay so for ever.
Fairness ==
  /\ \A t \in Threads : WF_vars(~fault /\ Setup(t))
  /\ WF_vars(~fault /\ BackoffOver)
  /\ WF_vars(~fault /\ Join)
  /\ \A c \in Conns :
       WF_vars(~fault /\ connState[c] \in {"connecting", "closing"} /\ (Opened(c) \/ Ended(c)))

Safe == Init /\ [][Next]_vars

Spec == Safe /\ Fairness

-----------------------------------------------------------------------------
(* Properties *)

\* Unless an event overtakes the store of its connection, a connection on which
\* a stage subscription was requested and which is not being closed belongs to
\* an object that is still there and will close it: no subscribed connection
\* is leaked by a reconnection, a refresh or a stop().
SubscribedIsOwned ==
  \A c \in Conns :
    connState[c] = "open" /\ inited[c] /\ ~overtaken /\ ~fault =>
      Alive(connSub[c]) /\ connection[connSub[c]] = c

\* The connections that bring stage updates to the Broadcast.
Feeds == {c \in Conns : connState[c] = "open" /\ inited[c] /\ Alive(connSub[c])}

\* At most one connection brings stage updates to the Broadcast: two would
\* interleave old and new stages in its message handler.
OneStageFeed == ~overtaken => Cardinality(Feeds) <= 1

\* connect() finds its object gone only when a stop() or an event has
\* overtaken it.
FaultsAreOvertakings == fault => stopped \/ overtaken

\* The destructor's join returns, unless a connection that was closed while it
\* was still connecting has opened since: the one leak close() allows.
JoinReturns ==
  client = "joining" ~>
    client = "gone" \/ fault \/ overtaken
    \/ \E c \in Conns : connState[c] = "open" /\ ~inited[c]

\* The connection of subscription_: stored already, or about to be.
Current ==
  LET Storing(t) == call[t].pc = "store" /\ call[t].sub = subscription
  IN IF Storing("worker") THEN call["worker"].conn
     ELSE IF Storing("ws") THEN call["ws"].conn
     ELSE connection[subscription]

\* connect() has not been called on it yet.
IsFresh == \E t \in Threads : call[t].pc = "connect" /\ call[t].sub = NoSub

\* Its connection has ended, or its ended handler is running.
HasEnded ==
  \/ subscription = locked /\ call["ws"].pc \in {"backoff", "assign"}
  \/ ~IsFresh /\ Current # NoConn /\ connState[Current] \in {"none", "closing"}

\* How far subscription_ has got; if its connection was refused, no further than
\* connecting.
Progress ==
  IF subscription = NoSub THEN "null"
  ELSE IF HasEnded THEN "ended"
  ELSE IF IsFresh THEN "fresh"
  ELSE IF Current # NoConn /\ connState[Current] = "open" THEN "open"
  ELSE "connecting"

Slot == INSTANCE SubscriptionSlot WITH subscription <- Progress

\* As long as no event overtakes the store of its connection, the objects and
\* connections show the handlers of the Broadcast one subscription after the
\* other, each connected once it is assigned and replaced once its end has been
\* reported, and stage updates come only of one that is open: what the Broadcast
\* takes subscription_ to be is what is behind it.
KeepsToSlot ==
  /\ Slot!Init
  /\ [](WsIdle /\ ~overtaken /\ Feeds # {} => Progress = "open")
  /\ [][~overtaken' => Slot!Next]_Progress
=============================================================================
