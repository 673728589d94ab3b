----------------------- MODULE StageSubscriptionProofs -----------------------
(***************************************************************************)
(* Who owns which connection, for any sets of objects and connections: no  *)
(* subscribed connection is leaked and there is one source of stage        *)
(* updates, unless an event overtakes the store of its connection.         *)
(***************************************************************************)
EXTENDS StageSubscription, FiniteSetTheorems, TLAPS

-----------------------------------------------------------------------------
(* The inductive invariant *)

\* What each place in setupSubscription and connect() goes with.
CallInv ==
  /\ \A t \in Threads :
       /\ call[t].pc \in {"idle", "assign", "backoff"} => call[t].sub = NoSub
       /\ call[t].pc # "store" => call[t].conn = NoConn
       /\ call[t].pc = "store" => call[t].sub # NoSub
  /\ call["worker"].pc = "connect" => call["worker"].sub = NoSub
  /\ call["ws"].pc = "connect" /\ call["ws"].sub # NoSub => call["ws"].sub = locked

\* The worker makes the first connection: until it has stored it, nothing else
\* is connected and no handler runs.
WorkerFirst ==
  call["worker"].pc # "idle" =>
    /\ WsIdle
    /\ \A c \in Conns : connState[c] # "none" => NotStored(c)

\* The object that connect() works on, and that nobody else connects.
SetupInv ==
  \A t \in Threads :
    /\ call[t].pc = "connect" /\ call[t].sub = NoSub /\ ~stopped => subscription # NoSub
    /\ call[t].pc = "connect" /\ Target(t) # NoSub /\ connection[Target(t)] # NoConn =>
         connState[connection[Target(t)]] # "connecting"
    /\ call[t].pc = "store" /\ ~stopped => Alive(call[t].sub)
    /\ call[t].pc = "store" => connection[call[t].sub] = NoConn
    /\ call[t].pc = "store" /\ call[t].conn # NoConn => connSub[call[t].conn] = call[t].sub

\* A connection not being closed is the one its object knows or is about to,
\* and one with a subscription has an object.
OwnInv ==
  \A c \in Conns :
    /\ connState[c] \in {"connecting", "open"} /\ Alive(connSub[c]) =>
         \/ connection[connSub[c]] = c
         \/ \E t \in Threads : call[t].pc = "store" /\ call[t].conn = c
    /\ connState[c] = "open" /\ inited[c] =>
         Alive(connSub[c]) /\ connection[connSub[c]] = c

\* The object that replaces the one of a running handler gets nothing yet.
FeedInv ==
  locked # NoSub /\ subscription # locked =>
    \A c \in Conns :
      connSub[c] = subscription => ~(connState[c] = "open" /\ inited[c])

IInv ==
  /\ TypeOK
  /\ CallInv
  /\ ~overtaken => WorkerFirst /\ SetupInv /\ OwnInv /\ FeedInv
  /\ FaultsAreOvertakings

-----------------------------------------------------------------------------
(* Every step keeps IInv *)

USE DEF vars, conns, Threads, WsIdle, FaultsAreOvertakings

\* WebsocketClient::close does nothing but to the connection it is given, if it is open.
LEMMA Closed ==
  ASSUME TypeOK, NEW c
  PROVE  /\ Close(connState, c) \in [Conns -> {"none", "connecting", "open", "closing"}]
         /\ \A d \in Conns :
              Close(connState, c)[d] = IF d = c /\ connState[d] = "open" THEN "closing" ELSE connState[d]
BY DEF Close, TypeOK

\* And ~GraphqlSubscription nothing but to the connection it has stored.
LEMMA Destroyed ==
  ASSUME TypeOK, NEW s
  PROVE  /\ Destroy(connState, s) \in [Conns -> {"none", "connecting", "open", "closing"}]
         /\ \A d \in Conns :
              Destroy(connState, s)[d] = IF s \in Subs /\ d = connection[s] /\ connState[d] = "open"
                                         THEN "closing" ELSE connState[d]
BY Closed DEF Destroy, TypeOK

\* Nothing is connected, and the worker is about to subscribe.
LEMMA InitInv == Init => IInv
<1> SUFFICES ASSUME Init  PROVE IInv
  OBVIOUS
<1>1. /\ call["worker"] = [pc |-> "assign", sub |-> NoSub, conn |-> NoConn]
      /\ call["ws"] = [pc |-> "idle", sub |-> NoSub, conn |-> NoConn]
      /\ call = [t \in Threads |-> call[t]]
  BY DEF Init, Idle
<1>2. TypeOK
  <2>1. call \in [Threads -> [pc : {"idle", "assign", "connect", "store", "backoff"},
                            sub : Subs \cup {NoSub}, conn : Conns \cup {NoConn}]]
    BY <1>1
  <2>2. inited \in [Conns -> BOOLEAN]
    BY DEF Init
  <2>3. locked = NoSub <=> call["ws"].pc = "idle"
    BY <1>1 DEF Init
  <2>4. /\ connection \in [Subs -> Conns \cup {NoConn}]
        /\ connState \in [Conns -> {"none", "connecting", "open", "closing"}]
        /\ connSub \in [Conns -> Subs \cup {NoSub}]
    BY DEF Init
  <2> QED  BY <2>1, <2>2, <2>3, <2>4, Zenon DEF Init, TypeOK
<1>3. CallInv
  BY <1>1 DEF CallInv
<1>4. WorkerFirst /\ SetupInv /\ OwnInv /\ FeedInv
  BY <1>1 DEF Init, WorkerFirst, SetupInv, OwnInv, FeedInv
<1> QED  BY <1>2, <1>3, <1>4 DEF Init, IInv

\* The new object has no connection; the one it replaces closes its own, unless
\* a handler still holds it.
LEMMA AssignInv ==
  ASSUME NEW t \in Threads, NEW s, IInv, ~fault, Assign(t, s)
  PROVE  IInv'
<1> USE Destroyed, NoneAssumption DEF Assign, Alive, Target
<1>1. TypeOK'
  BY DEF IInv, TypeOK, FreeSubs
<1>2. CallInv'
  BY DEF IInv, TypeOK, CallInv
<1>3. ~overtaken' => WorkerFirst'
  BY DEF IInv, CallInv, WorkerFirst, NotStored
<1>4. ~overtaken' => SetupInv'
  BY DEF IInv, TypeOK, CallInv, WorkerFirst, NotStored, SetupInv, FreeSubs
<1>5. ~overtaken' => OwnInv'
  BY DEF IInv, TypeOK, CallInv, WorkerFirst, SetupInv, OwnInv, FreeSubs
<1>6. ~overtaken' => FeedInv'
  BY DEF IInv, TypeOK, OwnInv, FeedInv, FreeSubs
<1>7. FaultsAreOvertakings'
  BY DEF IInv
<1> QED  BY <1>1, <1>2, <1>3, <1>4, <1>5, <1>6, <1>7 DEF IInv

\* The old connection is closed before the new one starts, which no object
\* knows yet.
LEMMA ConnectInv ==
  ASSUME NEW t \in Threads, NEW c, IInv, ~fault, Connect(t, c)
  PROVE  IInv'
<1> USE Closed, NoneAssumption DEF Connect, Alive, Target
<1>1. TypeOK'
  BY DEF IInv, TypeOK, FreeConns
<1>2. CallInv'
  BY DEF IInv, TypeOK, CallInv
<1>3. ~overtaken' => WorkerFirst'
  BY DEF IInv, TypeOK, CallInv, WorkerFirst, NotStored
<1>4. ~overtaken' => SetupInv'
  BY DEF IInv, TypeOK, CallInv, WorkerFirst, NotStored, SetupInv, FreeConns
<1>5. ~overtaken' => OwnInv'
  BY DEF IInv, TypeOK, CallInv, SetupInv, OwnInv, FreeConns
<1>6. ~overtaken' => FeedInv'
  BY DEF IInv, TypeOK, OwnInv, FeedInv
<1>7. FaultsAreOvertakings'
  BY DEF IInv
<1> QED  BY <1>1, <1>2, <1>3, <1>4, <1>5, <1>6, <1>7 DEF IInv

\* The old connection is closed all the same.
LEMMA ConnectRefusedInv ==
  ASSUME NEW t \in Threads, IInv, ~fault, ConnectRefused(t)
  PROVE  IInv'
<1> USE Closed, NoneAssumption DEF ConnectRefused, Alive, Target
<1>1. TypeOK'
  BY DEF IInv, TypeOK
<1>2. CallInv'
  BY DEF IInv, TypeOK, CallInv
<1>3. ~overtaken' => WorkerFirst'
  BY DEF IInv, CallInv, WorkerFirst, NotStored
<1>4. ~overtaken' => SetupInv'
  BY DEF IInv, TypeOK, CallInv, WorkerFirst, NotStored, SetupInv
<1>5. ~overtaken' => OwnInv'
  <2> SUFFICES ASSUME ~overtaken, NEW c \in Conns
               PROVE  /\ connState'[c] \in {"connecting", "open"} /\ Alive(connSub[c])' =>
                           \/ connection'[connSub[c]] = c
                           \/ \E u \in Threads : call'[u].pc = "store" /\ call'[u].conn = c
                      /\ connState'[c] = "open" /\ inited[c] =>
                           Alive(connSub[c])' /\ connection'[connSub[c]] = c
    BY DEF OwnInv
  <2> USE DEF IInv, TypeOK, CallInv, WorkerFirst, NotStored, SetupInv
  <2>1. \A u \in Threads : call[u].pc # "store"
    OBVIOUS
  <2>2. connState'[c] \in {"connecting", "open"} => connState[c] = connState'[c]
    OBVIOUS
  <2>3. CASE connection[Target(t)] = c
    BY <2>1, <2>2, <2>3
  <2>4. CASE connection[Target(t)] # c
    BY <2>1, <2>2, <2>4 DEF OwnInv
  <2> QED  BY <2>3, <2>4
<1>6. ~overtaken' => FeedInv'
  BY DEF IInv, FeedInv
<1>7. FaultsAreOvertakings'
  BY DEF IInv
<1> QED  BY <1>1, <1>2, <1>3, <1>4, <1>5, <1>6, <1>7 DEF IInv

\* subscription_ was assigned just before: a stop() or an event has overtaken it.
LEMMA ConnectOnNullInv ==
  ASSUME NEW t \in Threads, IInv, ~fault, ConnectOnNull(t)
  PROVE  IInv'
<1> USE NoneAssumption DEF ConnectOnNull, Alive, Target
<1>1. TypeOK'
  BY DEF IInv, TypeOK
<1>2. CallInv'
  BY DEF IInv, TypeOK, CallInv
<1>3. ~overtaken' => WorkerFirst'
  BY DEF IInv, CallInv, WorkerFirst, NotStored
<1>4. ~overtaken' => SetupInv'
  BY DEF IInv, WorkerFirst, NotStored, SetupInv
<1>5. ~overtaken' => OwnInv'
  BY DEF IInv, SetupInv, OwnInv
<1>6. ~overtaken' => FeedInv'
  BY DEF IInv, OwnInv, FeedInv
<1>7. FaultsAreOvertakings'
  BY DEF IInv, SetupInv
<1> QED  BY <1>1, <1>2, <1>3, <1>4, <1>5, <1>6, <1>7 DEF IInv

\* The connection gets its owner; a handler that returns drops the object it
\* has replaced.
LEMMA StoreInv ==
  ASSUME NEW t \in Threads, IInv, ~fault, Store(t)
  PROVE  IInv'
<1> USE Closed, Destroyed, NoneAssumption DEF Store, Idle, Alive, Target
<1>1. TypeOK'
  BY DEF IInv, TypeOK
<1>2. CallInv'
  BY DEF IInv, TypeOK, CallInv
<1>3. ~overtaken' => WorkerFirst'
  BY DEF IInv, TypeOK, CallInv, WorkerFirst
<1>4. ~overtaken' => SetupInv'
  BY DEF IInv, TypeOK, WorkerFirst, SetupInv
<1>5. ~overtaken' => OwnInv'
  <2> SUFFICES ASSUME ~overtaken, NEW c \in Conns
               PROVE  /\ connState'[c] \in {"connecting", "open"} /\ Alive(connSub[c])' =>
                           \/ connection'[connSub[c]] = c
                           \/ \E u \in Threads : call'[u].pc = "store" /\ call'[u].conn = c
                      /\ connState'[c] = "open" /\ inited[c] =>
                           Alive(connSub[c])' /\ connection'[connSub[c]] = c
    BY DEF OwnInv
  <2> USE DEF IInv, TypeOK, CallInv, WorkerFirst, NotStored, SetupInv
  <2>1. connection[call[t].sub] = NoConn /\ connection'[call[t].sub] = call[t].conn
    OBVIOUS
  <2>2. \A u \in Threads \ {t} : call[u].pc # "store"
    OBVIOUS
  <2>3. connState'[c] \in {"connecting", "open"} => connState[c] = connState'[c]
    OBVIOUS
  <2>4. CASE connSub[c] = call[t].sub
    BY <2>1, <2>2, <2>3, <2>4 DEF OwnInv
  <2>5. CASE connSub[c] # call[t].sub
    <3>1. connection'[connSub[c]] = connection[connSub[c]]
      BY <2>5
    <3>2. CASE t = "worker"
      BY <2>2, <2>3, <2>5, <3>1, <3>2
    <3>3. CASE t = "ws"
      BY <2>2, <2>3, <2>5, <3>1, <3>3 DEF OwnInv
    <3> QED  BY <3>2, <3>3
  <2> QED  BY <2>4, <2>5
<1>6. ~overtaken' => FeedInv'
  BY DEF IInv, FeedInv
<1>7. FaultsAreOvertakings'
  BY DEF IInv
<1> QED  BY <1>1, <1>2, <1>3, <1>4, <1>5, <1>6, <1>7 DEF IInv

\* The object has gone in between, which takes a stop() or such an event.
LEMMA StoreIntoNothingInv ==
  ASSUME NEW t \in Threads, IInv, ~fault, StoreIntoNothing(t)
  PROVE  IInv'
<1> USE NoneAssumption DEF StoreIntoNothing, Alive, Target
<1>1. TypeOK'
  BY DEF IInv, TypeOK
<1>2. CallInv'
  BY DEF IInv, TypeOK, CallInv
<1>3. ~overtaken' => WorkerFirst'
  BY DEF IInv, CallInv, WorkerFirst, NotStored
<1>4. ~overtaken' => SetupInv'
  BY DEF IInv, WorkerFirst, NotStored, SetupInv
<1>5. ~overtaken' => OwnInv'
  BY DEF IInv, SetupInv, OwnInv
<1>6. ~overtaken' => FeedInv'
  BY DEF IInv, OwnInv, FeedInv
<1>7. FaultsAreOvertakings'
  BY DEF IInv, SetupInv
<1> QED  BY <1>1, <1>2, <1>3, <1>4, <1>5, <1>6, <1>7 DEF IInv

\* A subscription is requested on a connection that its object knows.
LEMMA OpenedInv ==
  ASSUME NEW c \in Conns, IInv, ~fault, Opened(c)
  PROVE  IInv'
<1> USE NoneAssumption DEF Opened, Alive, Target
<1>1. TypeOK'
  BY DEF IInv, TypeOK
<1>2. CallInv'
  BY DEF IInv, TypeOK, CallInv
<1>3. ~overtaken' => WorkerFirst'
  BY DEF IInv, CallInv, WorkerFirst
<1>4. ~overtaken' => SetupInv'
  BY DEF IInv, WorkerFirst, SetupInv
<1>5. ~overtaken' => OwnInv'
  BY DEF IInv, TypeOK, WorkerFirst, SetupInv, OwnInv
<1>6. ~overtaken' => FeedInv'
  BY DEF IInv, TypeOK, WorkerFirst, OwnInv, FeedInv
<1>7. FaultsAreOvertakings'
  BY DEF IInv, TypeOK
<1> QED  BY <1>1, <1>2, <1>3, <1>4, <1>5, <1>6, <1>7 DEF IInv

\* The object whose connection has ended is the one in subscription_, or a
\* handler would be running.
LEMMA EndedInv ==
  ASSUME NEW c \in Conns, IInv, ~fault, Ended(c)
  PROVE  IInv'
<1> USE NoneAssumption DEF Ended, Alive, Target
<1>0. /\ call' \in [Threads -> [pc : {"idle", "assign", "connect", "store", "backoff"},
                               sub : Subs \cup {NoSub}, conn : Conns \cup {NoConn}]]
      /\ call'["worker"] = call["worker"]
      /\ call'["ws"].sub = NoSub /\ call'["ws"].conn = NoConn
      /\ call'["ws"].pc \in {"idle", "backoff", "assign"}
      /\ call'["ws"].pc = "idle" <=> locked' = NoSub
  BY DEF IInv, TypeOK, CallInv
<1>1. TypeOK'
  <2>1. overtaken' \in BOOLEAN /\ inited' \in [Conns -> BOOLEAN]
    BY Zenon DEF IInv, TypeOK
  <2> QED  BY <1>0, <2>1 DEF IInv, TypeOK
<1>2. CallInv'
  BY <1>0 DEF IInv, TypeOK, CallInv
<1>3. ~overtaken' => WorkerFirst'
  BY DEF IInv, TypeOK, CallInv, WorkerFirst
<1>4. ~overtaken' => SetupInv'
  BY <1>0 DEF IInv, TypeOK, WorkerFirst, SetupInv
<1>5. ~overtaken' => OwnInv'
  BY DEF IInv, TypeOK, SetupInv, OwnInv
<1>6. ~overtaken' => FeedInv'
  BY DEF IInv, TypeOK, OwnInv, FeedInv
<1>7. FaultsAreOvertakings'
  BY DEF IInv, TypeOK
<1> QED  BY <1>1, <1>2, <1>3, <1>4, <1>5, <1>6, <1>7 DEF IInv

\* The object reconnects that the expired connection belongs to.
LEMMA CredentialExpiredInv ==
  ASSUME NEW c \in Conns, IInv, ~fault, CredentialExpired(c)
  PROVE  IInv'
<1> USE NoneAssumption DEF CredentialExpired, Alive, Target
<1>1. TypeOK'
  BY DEF IInv, TypeOK
<1>2. CallInv'
  BY DEF IInv, TypeOK, CallInv
<1>3. ~overtaken' => WorkerFirst'
  BY DEF IInv, TypeOK, CallInv, WorkerFirst
<1>4. ~overtaken' => SetupInv'
  BY DEF IInv, TypeOK, WorkerFirst, SetupInv, OwnInv
<1>5. ~overtaken' => OwnInv'
  BY DEF IInv, TypeOK, SetupInv, OwnInv
<1>6. ~overtaken' => FeedInv'
  BY DEF IInv, TypeOK, OwnInv, FeedInv
<1>7. FaultsAreOvertakings'
  BY DEF IInv
<1> QED  BY <1>1, <1>2, <1>3, <1>4, <1>5, <1>6, <1>7 DEF IInv

\* The handler goes on to subscribe, or drops what it holds.
LEMMA BackoffOverInv ==
  ASSUME IInv, ~fault, BackoffOver
  PROVE  IInv'
<1> USE Destroyed, NoneAssumption DEF BackoffOver, HandlerReturns, Idle, Alive, Target
<1>0. /\ call' \in [Threads -> [pc : {"idle", "assign", "connect", "store", "backoff"},
                               sub : Subs \cup {NoSub}, conn : Conns \cup {NoConn}]]
      /\ call'["worker"] = call["worker"]
      /\ call'["ws"].sub = NoSub /\ call'["ws"].conn = NoConn
      /\ call'["ws"].pc = IF stopped THEN "idle" ELSE "assign"
  BY DEF IInv, TypeOK, CallInv
<1>1. TypeOK'
  BY <1>0 DEF IInv, TypeOK, CallInv
<1>2. CallInv'
  BY <1>0 DEF IInv, TypeOK, CallInv
<1>3. ~overtaken' => WorkerFirst'
  BY DEF IInv, TypeOK, CallInv, WorkerFirst
<1>4. ~overtaken' => SetupInv'
  BY <1>0 DEF IInv, TypeOK, WorkerFirst, SetupInv
<1>5. ~overtaken' => OwnInv'
  BY DEF IInv, TypeOK, WorkerFirst, SetupInv, OwnInv
<1>6. ~overtaken' => FeedInv'
  BY DEF IInv, TypeOK, WorkerFirst, OwnInv, FeedInv
<1>7. FaultsAreOvertakings'
  BY DEF IInv
<1> QED  BY <1>1, <1>2, <1>3, <1>4, <1>5, <1>6, <1>7 DEF IInv

\* stop() closes the connection of the object it drops.
LEMMA StopInv ==
  ASSUME IInv, ~fault, Stop
  PROVE  IInv'
<1> USE Destroyed, NoneAssumption DEF Stop, Alive, Target
<1>1. TypeOK'
  BY DEF IInv, TypeOK
<1>2. CallInv'
  BY DEF IInv, TypeOK, CallInv
<1>3. ~overtaken' => WorkerFirst'
  BY DEF IInv, CallInv, WorkerFirst, NotStored
<1>4. ~overtaken' => SetupInv'
  BY DEF IInv, TypeOK, WorkerFirst, NotStored, SetupInv
<1>5. ~overtaken' => OwnInv'
  BY DEF IInv, TypeOK, SetupInv, OwnInv
<1>6. ~overtaken' => FeedInv'
  BY DEF IInv, TypeOK, OwnInv, FeedInv
<1>7. FaultsAreOvertakings'
  BY DEF IInv
<1> QED  BY <1>1, <1>2, <1>3, <1>4, <1>5, <1>6, <1>7 DEF IInv

\* As does the destructor.
LEMMA DestroyBroadcastInv ==
  ASSUME IInv, ~fault, DestroyBroadcast
  PROVE  IInv'
<1> USE Destroyed, NoneAssumption DEF DestroyBroadcast, Alive, Target
<1>1. TypeOK'
  BY DEF IInv, TypeOK
<1>2. CallInv'
  BY DEF IInv, TypeOK, CallInv
<1>3. ~overtaken' => WorkerFirst'
  BY DEF IInv, CallInv, WorkerFirst
<1>4. ~overtaken' => SetupInv'
  BY DEF IInv, WorkerFirst, SetupInv
<1>5. ~overtaken' => OwnInv'
  BY DEF IInv, TypeOK, SetupInv, OwnInv
<1>6. ~overtaken' => FeedInv'
  BY DEF IInv, TypeOK, OwnInv, FeedInv
<1>7. FaultsAreOvertakings'
  BY DEF IInv
<1> QED  BY <1>1, <1>2, <1>3, <1>4, <1>5, <1>6, <1>7 DEF IInv

\* There is nothing left to disturb.
LEMMA JoinInv ==
  ASSUME IInv, ~fault, Join
  PROVE  IInv'
<1> USE NoneAssumption DEF Join, Alive, Target
<1>1. TypeOK'
  BY DEF IInv, TypeOK
<1>2. CallInv'
  BY DEF IInv, TypeOK, CallInv
<1>3. ~overtaken' => WorkerFirst'
  BY DEF IInv, CallInv, WorkerFirst
<1>4. ~overtaken' => SetupInv'
  BY DEF IInv, WorkerFirst, SetupInv
<1>5. ~overtaken' => OwnInv'
  BY DEF IInv, SetupInv, OwnInv
<1>6. ~overtaken' => FeedInv'
  BY DEF IInv, OwnInv, FeedInv
<1>7. FaultsAreOvertakings'
  BY DEF IInv
<1> QED  BY <1>1, <1>2, <1>3, <1>4, <1>5, <1>6, <1>7 DEF IInv

LEMMA NextInv == IInv /\ [Next]_vars => IInv'
<1> SUFFICES ASSUME IInv, [Next]_vars  PROVE IInv'
  OBVIOUS
<1>1. CASE UNCHANGED vars
  BY <1>1 DEF IInv, TypeOK, CallInv, WorkerFirst, SetupInv, OwnInv, FeedInv, NotStored, Alive, Target
<1>2. ASSUME ~fault, NEW t \in Threads, Setup(t)  PROVE IInv'
  BY <1>2, AssignInv, ConnectInv, ConnectRefusedInv, ConnectOnNullInv, StoreInv, StoreIntoNothingInv
     DEF Setup
<1>3. ASSUME ~fault, NEW c \in Conns, Opened(c) \/ Ended(c) \/ CredentialExpired(c)  PROVE IInv'
  BY <1>3, OpenedInv, EndedInv, CredentialExpiredInv
<1>4. ASSUME ~fault, BackoffOver \/ Stop \/ DestroyBroadcast \/ Join  PROVE IInv'
  BY <1>4, BackoffOverInv, StopInv, DestroyBroadcastInv, JoinInv
<1> QED  BY <1>1, <1>2, <1>3, <1>4 DEF Next

-----------------------------------------------------------------------------
(* What the run checks, for any objects and connections *)

LEMMA Invariance == Safe => []IInv
<1>1. Init => IInv
  BY InitInv
<1>2. IInv /\ [Next]_vars => IInv'
  BY NextInv
<1> QED  BY <1>1, <1>2, PTL DEF Safe

\* Every variable keeps its range, and the websocket thread holds a
\* subscription exactly while it is in a handler.
THEOREM TypeCorrect == Spec => []TypeOK
<1>1. IInv => TypeOK
  BY DEF IInv
<1> QED  BY <1>1, Invariance, PTL DEF Spec

\* Without a stop() and without an event that overtakes the store of its
\* connection, connect() always finds its object.
THEOREM ConnectFindsItsObject == Spec => []FaultsAreOvertakings
<1>1. IInv => FaultsAreOvertakings
  BY DEF IInv
<1> QED  BY <1>1, Invariance, PTL DEF Spec

\* A subscribed connection that is not being closed has an object that will
\* close it, through reconnections, refreshes and a stop(), unless overtaken.
THEOREM NoneIsLeaked == Spec => []SubscribedIsOwned
<1>1. IInv => SubscribedIsOwned
  BY DEF IInv, OwnInv, SubscribedIsOwned
<1> QED  BY <1>1, Invariance, PTL DEF Spec

\* And there is one at most that brings stage updates: with a handler running,
\* the object it is about to replace or the one that replaces it.
THEOREM OneFeed == Spec => []OneStageFeed
<1>1. ASSUME IInv, ~overtaken  PROVE Cardinality(Feeds) <= 1
  <2>1. \A c, d \in Feeds : c = d
    <3>1. \A c \in Feeds : connection[connSub[c]] = c /\ connSub[c] \in {subscription, locked} \ {NoSub}
      BY <1>1 DEF IInv, OwnInv, Alive, Feeds
    <3>2. \A c, d \in Feeds : connSub[c] = connSub[d]
      BY <1>1, <3>1 DEF IInv, FeedInv, Feeds
    <3> QED  BY <3>1, <3>2
  <2>2. CASE Feeds = {}
    BY <2>2, FS_EmptySet
  <2>3. CASE Feeds # {}
    <3>1. PICK c \in Feeds : TRUE
      BY <2>3
    <3>2. Feeds = {c}
      BY <2>1, <3>1
    <3>3. Cardinality(Feeds) = 1
      BY <3>2, FS_Singleton
    <3> QED  BY <3>3
  <2> QED  BY <2>2, <2>3
<1>2. IInv => OneStageFeed
  BY <1>1 DEF OneStageFeed
<1> QED  BY <1>2, Invariance, PTL DEF Spec

-----------------------------------------------------------------------------
(* The slot *)

\* Who may be about to change subscription_, and from what.
SlotInv ==
  /\ call["worker"].pc = "assign" => subscription = NoSub
  /\ call["ws"].pc \in {"backoff", "assign"} =>
       subscription = NoSub \/ (subscription = locked /\ ~stopped)
  /\ call["ws"].pc = "connect" /\ call["ws"].sub # NoSub =>
       /\ subscription \in {NoSub, locked}
       /\ connection[locked] # NoConn /\ connState[connection[locked]] = "open"
  /\ \A t \in Threads : call[t].pc = "store" =>
       /\ subscription \in {NoSub, call[t].sub}
       /\ call[t].conn # NoConn => connState[call[t].conn] = "connecting"

\* What the lemmas of this section take for granted: nothing is overtaken.
Undisturbed ==
  TypeOK /\ CallInv /\ WorkerFirst /\ SetupInv /\ OwnInv /\ SlotInv

LEMMA SlotInit == Init => SlotInv /\ Progress = "null"
BY DEF Init, SlotInv, Progress, Idle

\* One thread at a time sets up.
LEMMA OtherIdle ==
  ASSUME Undisturbed, NEW t \in Threads, call[t].pc # "idle", NEW u \in Threads, u # t
  PROVE  call[u].pc = "idle"
BY DEF Undisturbed, WorkerFirst

LEMMA SlotAssign ==
  ASSUME NEW t \in Threads, NEW s, Undisturbed, Assign(t, s)
  PROVE  SlotInv' /\ Slot!Assign
<1> USE OtherIdle, NoneAssumption DEF Assign, Alive, FreeSubs
<1>1. s \in Subs /\ s # locked /\ s # NoSub
  BY DEF Undisturbed, TypeOK
<1>2. SlotInv'
  BY <1>1 DEF Undisturbed, TypeOK, CallInv, SlotInv
<1>3. Progress \in {"null", "ended"}
  BY DEF Undisturbed, SlotInv, Progress, HasEnded
<1>4. Progress' = "fresh"
  BY <1>1 DEF Undisturbed, TypeOK, CallInv, Progress, HasEnded, IsFresh
<1> QED  BY <1>2, <1>3, <1>4 DEF Slot!Assign

LEMMA SlotConnect ==
  ASSUME NEW t \in Threads, NEW c, Undisturbed, Connect(t, c)
  PROVE  SlotInv' /\ (Slot!Connect \/ Slot!Reconnect \/ UNCHANGED Progress)
<1> USE OtherIdle, NoneAssumption DEF Connect, Target, FreeConns
<1>1. SlotInv'
  <2>1. \A u \in Threads \ {t} : call'[u] = call[u] /\ call[u].pc = "idle"
    BY DEF Undisturbed, TypeOK
  <2>2. call'[t].pc = "store" /\ call'[t].sub = Target(t) /\ call'[t].conn = c
    BY DEF Undisturbed, TypeOK
  <2>3. connState'[c] = "connecting"
    BY Closed DEF Undisturbed, TypeOK
  <2>4. subscription \in {NoSub, Target(t)}
    BY DEF Undisturbed, CallInv, SlotInv
  <2> QED  BY <2>1, <2>2, <2>3, <2>4 DEF SlotInv
<1>2. CASE subscription = NoSub
  BY <1>1, <1>2 DEF Progress
<1>3. CASE subscription # NoSub
  <2>1. call[t].pc = "connect" /\ Target(t) = subscription
    BY <1>3 DEF Undisturbed, CallInv, SlotInv
  <2>2. Progress' = "connecting"
    <3>1. call'[t].pc = "store" /\ call'[t].sub = subscription /\ call'[t].conn = c
      BY <2>1 DEF Undisturbed, TypeOK
    <3>2. \A u \in Threads \ {t} : call'[u] = call[u] /\ call[u].pc = "idle"
      BY <2>1 DEF Undisturbed, TypeOK
    <3>3. connState'[c] = "connecting"
      BY Closed DEF Undisturbed, TypeOK
    <3> QED  BY <1>3, <3>1, <3>2, <3>3 DEF Progress, HasEnded, IsFresh, Current
  <2>3. CASE call[t].sub = NoSub
    <3>1. Progress = "fresh"
      BY <1>3, <2>1, <2>3 DEF Progress, HasEnded, IsFresh
    <3> QED  BY <1>1, <2>2, <3>1 DEF Slot!Connect
  <2>4. CASE call[t].sub # NoSub
    <3>1. t = "ws" /\ subscription = locked
      BY <1>3, <2>1, <2>4 DEF Undisturbed, CallInv, SlotInv
    <3>2. Progress = "open"
      BY <1>3, <2>1, <2>4, <3>1 DEF Undisturbed, SlotInv, Progress, HasEnded, IsFresh, Current
    <3> QED  BY <1>1, <2>2, <3>2 DEF Slot!Reconnect
  <2> QED  BY <2>3, <2>4
<1> QED  BY <1>2, <1>3

LEMMA SlotConnectRefused ==
  ASSUME NEW t \in Threads, Undisturbed, ConnectRefused(t)
  PROVE  SlotInv' /\ (Slot!Connect \/ Slot!Reconnect \/ UNCHANGED Progress)
<1> USE OtherIdle, NoneAssumption DEF ConnectRefused, Target
<1>1. SlotInv'
  <2>1. \A u \in Threads \ {t} : call'[u] = call[u] /\ call[u].pc = "idle"
    BY DEF Undisturbed, TypeOK
  <2>2. call'[t].pc = "store" /\ call'[t].sub = Target(t) /\ call'[t].conn = NoConn
    BY DEF Undisturbed, TypeOK
  <2>3. subscription \in {NoSub, Target(t)}
    BY DEF Undisturbed, CallInv, SlotInv
  <2> QED  BY <2>1, <2>2, <2>3 DEF SlotInv
<1>2. CASE subscription = NoSub
  BY <1>1, <1>2 DEF Progress
<1>3. CASE subscription # NoSub
  <2>1. call[t].pc = "connect" /\ Target(t) = subscription
    BY <1>3 DEF Undisturbed, CallInv, SlotInv
  <2>2. Progress' = "connecting"
    <3>1. call'[t].pc = "store" /\ call'[t].sub = subscription /\ call'[t].conn = NoConn
      BY <2>1 DEF Undisturbed, TypeOK
    <3>2. \A u \in Threads \ {t} : call'[u] = call[u] /\ call[u].pc = "idle"
      BY <2>1 DEF Undisturbed, TypeOK
    <3> QED  BY <1>3, <3>1, <3>2 DEF Progress, HasEnded, IsFresh, Current
  <2>3. CASE call[t].sub = NoSub
    <3>1. Progress = "fresh"
      BY <1>3, <2>1, <2>3 DEF Progress, HasEnded, IsFresh
    <3> QED  BY <1>1, <2>2, <3>1 DEF Slot!Connect
  <2>4. CASE call[t].sub # NoSub
    <3>1. t = "ws" /\ subscription = locked
      BY <1>3, <2>1, <2>4 DEF Undisturbed, CallInv, SlotInv
    <3>2. Progress = "open"
      BY <1>3, <2>1, <2>4, <3>1 DEF Undisturbed, SlotInv, Progress, HasEnded, IsFresh, Current
    <3> QED  BY <1>1, <2>2, <3>2 DEF Slot!Reconnect
  <2> QED  BY <2>3, <2>4
<1> QED  BY <1>2, <1>3

LEMMA SlotStore ==
  ASSUME NEW t \in Threads, Undisturbed, Store(t)
  PROVE  SlotInv' /\ UNCHANGED Progress
<1> USE OtherIdle, NoneAssumption DEF Store, Idle
<1>1. call[t].pc = "store" /\ call[t].sub \in Subs /\ subscription \in {NoSub, call[t].sub}
  BY DEF Undisturbed, TypeOK, CallInv, SlotInv
<1>2. \A u \in Threads : call'[u].pc = "idle"
  BY <1>1 DEF Undisturbed, TypeOK
<1>3. SlotInv'
  BY <1>2 DEF SlotInv
<1>4. CASE subscription = NoSub
  BY <1>3, <1>4 DEF Progress
<1>5. CASE subscription # NoSub
  <2>1. Current = call[t].conn /\ Current' = call[t].conn
    BY <1>1, <1>2, <1>5 DEF Undisturbed, TypeOK, Current
  <2>2. call[t].conn # NoConn => connState[call[t].conn] = "connecting" /\ call[t].conn \in Conns
    BY <1>1 DEF Undisturbed, TypeOK, SlotInv
  <2>3. locked \in {NoSub, subscription} => connState' = connState
    BY <1>1, <1>5 DEF Undisturbed, TypeOK
  <2>4. call[t].conn # NoConn => connState'[call[t].conn] = "connecting"
    BY <1>1, <2>2, Closed, Destroyed DEF Undisturbed
  <2>5. Progress = "connecting"
    BY <1>1, <1>5, <2>1, <2>2 DEF Undisturbed, Progress, HasEnded, IsFresh
  <2>6. Progress' = "connecting"
    BY <1>2, <1>5, <2>1, <2>4 DEF Progress, HasEnded, IsFresh
  <2> QED  BY <1>3, <2>5, <2>6
<1> QED  BY <1>1, <1>4, <1>5

LEMMA SlotOpened ==
  ASSUME NEW c \in Conns, Undisturbed, Opened(c), ~overtaken'
  PROVE  SlotInv' /\ (Slot!Open \/ UNCHANGED Progress)
<1> USE NoneAssumption DEF Opened
<1>1. call["ws"].pc = "idle" /\ call["worker"].pc = "idle"
  BY DEF Undisturbed, TypeOK, WorkerFirst
<1>2. SlotInv'
  BY <1>1 DEF SlotInv
<1>3. ~IsFresh /\ ~IsFresh' /\ Current = connection[subscription] /\ Current' = Current
  BY <1>1 DEF IsFresh, Current
<1>4. HasEnded <=> connection[subscription] # NoConn /\ connState[connection[subscription]] \in {"none", "closing"}
  BY <1>1, <1>3 DEF HasEnded
<1>5. HasEnded' <=> connection[subscription] # NoConn /\ connState'[connection[subscription]] \in {"none", "closing"}
  BY <1>1, <1>3 DEF HasEnded
<1>6. \A d : connState'[d] = IF d = c THEN "open" ELSE connState[d]
  BY DEF Undisturbed, TypeOK
<1>7. CASE subscription = NoSub
  BY <1>2, <1>7 DEF Progress
<1>8. CASE subscription # NoSub /\ connection[subscription] = c
  BY <1>2, <1>3, <1>4, <1>5, <1>6, <1>8 DEF Progress, Slot!Open
<1>9. CASE subscription # NoSub /\ connection[subscription] # c
  BY <1>2, <1>3, <1>4, <1>5, <1>6, <1>9 DEF Progress
<1> QED  BY <1>7, <1>8, <1>9

LEMMA SlotEnded ==
  ASSUME NEW c \in Conns, Undisturbed, Ended(c), ~overtaken'
  PROVE  SlotInv' /\ (Slot!End \/ UNCHANGED Progress)
<1> USE NoneAssumption DEF Ended, Alive
<1>1. call["ws"].pc = "idle" /\ call["worker"].pc = "idle" /\ locked = NoSub
  BY DEF Undisturbed, TypeOK, WorkerFirst
<1>2. /\ call'["worker"] = call["worker"]
      /\ call'["ws"].pc \in {"idle", "backoff", "assign"}
      /\ call'["ws"].pc # "idle" => locked' = subscription /\ ~stopped
      /\ call'["ws"].pc = "idle" => locked' = NoSub
  BY <1>1 DEF Undisturbed, TypeOK
<1>3. SlotInv'
  BY <1>1, <1>2 DEF SlotInv
<1>4. CASE subscription = NoSub
  BY <1>3, <1>4 DEF Progress
<1>5. CASE subscription # NoSub
  <2>1. ~IsFresh /\ ~IsFresh' /\ Current = connection[subscription] /\ Current' = Current
    BY <1>1, <1>2 DEF IsFresh, Current
  <2>2. HasEnded <=> connection[subscription] # NoConn /\ connState[connection[subscription]] \in {"none", "closing"}
    BY <1>1, <2>1 DEF HasEnded
  <2>3. connection[subscription] # NoConn /\ connState'[connection[subscription]] \in {"none", "closing"} => HasEnded'
    BY <2>1 DEF HasEnded
  <2>4. \A d : connState'[d] = IF d = c THEN "none" ELSE connState[d]
    BY DEF Undisturbed, TypeOK
  <2>5. Progress \in {"connecting", "open", "ended"}
    BY <1>5, <2>1 DEF Progress
  <2>6. Progress' \in {Progress, "ended"}
    BY <1>5, <2>1, <2>2, <2>3, <2>4 DEF Progress
  <2> QED  BY <1>3, <2>5, <2>6 DEF Slot!End
<1> QED  BY <1>4, <1>5

LEMMA SlotCredentialExpired ==
  ASSUME NEW c \in Conns, Undisturbed, CredentialExpired(c), ~overtaken'
  PROVE  SlotInv' /\ UNCHANGED Progress
<1> USE NoneAssumption DEF CredentialExpired, Alive
<1>1. call["ws"].pc = "idle" /\ call["worker"].pc = "idle" /\ locked = NoSub
  BY DEF Undisturbed, TypeOK, WorkerFirst
<1>2. /\ call'["worker"] = call["worker"]
      /\ call'["ws"].pc = "connect" /\ call'["ws"].sub = subscription
      /\ locked' = subscription /\ subscription # NoSub
  BY <1>1 DEF Undisturbed, TypeOK
<1>3. connection[subscription] = c /\ connState[c] = "open"
  BY <1>1 DEF Undisturbed, OwnInv
<1>4. SlotInv'
  BY <1>1, <1>2, <1>3 DEF SlotInv
<1>5. UNCHANGED Progress
  BY <1>1, <1>2, <1>3 DEF Progress, HasEnded, IsFresh, Current
<1> QED  BY <1>4, <1>5

LEMMA SlotBackoffOver ==
  ASSUME Undisturbed, BackoffOver
  PROVE  SlotInv' /\ UNCHANGED Progress
<1> USE OtherIdle, NoneAssumption DEF BackoffOver
<1>1. /\ call["ws"].pc = "backoff" /\ call["worker"].pc = "idle"
      /\ subscription = NoSub \/ (subscription = locked /\ ~stopped)
  BY DEF Undisturbed, SlotInv
<1>2. CASE stopped
  BY <1>1, <1>2 DEF Undisturbed, TypeOK, HandlerReturns, Idle, SlotInv, Progress
<1>3. CASE ~stopped
  <2>1. call'["ws"].pc = "assign" /\ call'["worker"] = call["worker"]
    BY <1>1, <1>3 DEF Undisturbed, TypeOK
  <2> QED  BY <1>1, <1>3, <2>1 DEF SlotInv, Progress, HasEnded
<1> QED  BY <1>2, <1>3

\* stop() and ~Broadcast
LEMMA SlotReset ==
  ASSUME Undisturbed, Stop \/ DestroyBroadcast
  PROVE  SlotInv' /\ Slot!Reset
<1>1. subscription' = NoSub /\ locked' = locked /\ call' = call /\ connection' = connection
  BY DEF Stop, DestroyBroadcast
<1>2. \A c \in Conns :
        connState'[c] = connState[c]
        \/ /\ subscription \in Subs /\ subscription # locked
           /\ c = connection[subscription] /\ connState[c] = "open"
  <2>1. TypeOK /\ connState' = IF subscription # locked THEN Destroy(connState, subscription) ELSE connState
    BY DEF Undisturbed, Stop, DestroyBroadcast
  <2> QED  BY <2>1, Destroyed
<1>3. SlotInv'
  <2>1. \A t \in Threads : call[t].pc = "store" /\ call[t].conn # NoConn =>
          connState'[call[t].conn] = "connecting"
    BY <1>2 DEF Undisturbed, TypeOK, SlotInv
  <2>2. call["ws"].pc = "connect" /\ call["ws"].sub # NoSub =>
          connection[locked] # NoConn /\ connState'[connection[locked]] = "open"
    <3> SUFFICES ASSUME call["ws"].pc = "connect", call["ws"].sub # NoSub
                 PROVE  connection[locked] # NoConn /\ connState'[connection[locked]] = "open"
      OBVIOUS
    <3>1. /\ connection[locked] \in Conns /\ connState[connection[locked]] = "open"
          /\ subscription \in {NoSub, locked}
      BY NoneAssumption DEF Undisturbed, TypeOK, SlotInv
    <3> QED  BY <1>2, <3>1, NoneAssumption
  <2> QED  BY <1>1, <2>1, <2>2 DEF SlotInv
<1> QED  BY <1>1, <1>3 DEF Slot!Reset, Progress

LEMMA SlotStep ==
  IInv /\ (~overtaken => SlotInv) /\ [Next]_vars =>
    (~overtaken' => SlotInv' /\ (Slot!Next \/ UNCHANGED Progress))
<1> SUFFICES ASSUME IInv, ~overtaken => SlotInv, [Next]_vars, ~overtaken'
             PROVE  SlotInv' /\ (Slot!Next \/ UNCHANGED Progress)
  OBVIOUS
<1> USE DEF Slot!Next
<1>1. ~overtaken
  BY DEF Next, Setup, Assign, Connect, ConnectRefused, ConnectOnNull, Store, StoreIntoNothing,
     Opened, Ended, CredentialExpired, BackoffOver, Stop, DestroyBroadcast, Join
<1>2. Undisturbed
  BY <1>1 DEF IInv, Undisturbed
<1>3. CASE UNCHANGED <<subscription, locked, connection, connState, call, stopped>>
  BY <1>2, <1>3 DEF Undisturbed, SlotInv, Progress, HasEnded, IsFresh, Current
<1>4. ASSUME NEW t \in Threads, Setup(t)  PROVE SlotInv' /\ (Slot!Next \/ UNCHANGED Progress)
  BY <1>2, <1>3, <1>4, SlotAssign, SlotConnect, SlotConnectRefused, SlotStore
     DEF Setup, ConnectOnNull, StoreIntoNothing
<1>5. ASSUME NEW c \in Conns, Opened(c) \/ Ended(c) \/ CredentialExpired(c)
      PROVE  SlotInv' /\ (Slot!Next \/ UNCHANGED Progress)
  BY <1>2, <1>5, SlotOpened, SlotEnded, SlotCredentialExpired
<1>6. CASE BackoffOver \/ Stop \/ DestroyBroadcast \/ Join
  BY <1>2, <1>3, <1>6, SlotBackoffOver, SlotReset DEF Join
<1> QED  BY <1>3, <1>4, <1>5, <1>6 DEF Next

LEMMA FeedsAreCurrent ==
  ASSUME Undisturbed, WsIdle, Feeds # {}
  PROVE  Progress = "open"
<1>1. PICK c \in Conns : connState[c] = "open" /\ inited[c] /\ Alive(connSub[c])
  BY DEF Feeds
<1>2. locked = NoSub /\ call["worker"].pc = "idle"
  <2>1. locked = NoSub
    BY DEF Undisturbed, TypeOK
  <2>2. connSub[c] \in Subs /\ connection[connSub[c]] = c
    BY <1>1 DEF Undisturbed, TypeOK, OwnInv, Alive
  <2>3. call["worker"].pc # "idle" => call["worker"].pc = "store" /\ call["worker"].conn = c
    BY <1>1 DEF Undisturbed, WorkerFirst, NotStored
  <2>4. call["worker"].pc = "store" =>
          /\ connection[call["worker"].sub] = NoConn
          /\ call["worker"].conn # NoConn => connSub[call["worker"].conn] = call["worker"].sub
    BY DEF Undisturbed, SetupInv
  <2> QED  BY <2>1, <2>2, <2>3, <2>4, NoneAssumption
<1>3. subscription # NoSub /\ connection[subscription] = c /\ c # NoConn
  BY <1>1, <1>2, NoneAssumption DEF Undisturbed, OwnInv, Alive
<1> QED  BY <1>1, <1>2, <1>3 DEF Progress, HasEnded, IsFresh, Current

\* What the handlers of the Broadcast find in subscription_ is one subscription
\* after the other, whatever objects and connections there are, as long as no
\* event overtakes the store of its connection.
THEOREM SlotIsKept == Spec => KeepsToSlot
<1> DEFINE Kept == ~overtaken => SlotInv
<1>1. Init => Kept /\ Slot!Init
  BY SlotInit DEF Slot!Init
<1>2. IInv /\ Kept /\ [Next]_vars => Kept' /\ [~overtaken' => Slot!Next]_Progress
  BY SlotStep
<1>3. IInv /\ Kept => (WsIdle /\ ~overtaken /\ Feeds # {} => Progress = "open")
  BY FeedsAreCurrent DEF IInv, Undisturbed
<1> QED  BY <1>1, <1>2, <1>3, Invariance, PTL DEF Safe, Spec, KeepsToSlot
=============================================================================
