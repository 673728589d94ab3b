------------------------- MODULE BroadcastInvariant -------------------------
(***************************************************************************)
(* The inductive invariant of Broadcast: where the three threads can be at *)
(* the same time, and what each of them may take for granted there.        *)
(***************************************************************************)
EXTENDS Broadcast

\* The worker has not called connect() on a subscription yet.
BeforeConnect == {"none", "subscribe", "connect"}

\* The worker has not asked the server for a broadcast yet.
BeforeRequest ==
  BeforeConnect \cup {"toStreaming", "require", "awaitOpen", "startBroadcast"}

\* The server has accepted the broadcast and has not been told to stop it.
OnAirPcs == {"toLive", "undoStart", "callStarted", "loop", "beat", "exit", "stopBroadcast"}

\* startedCallback has been called and the worker has not finished.
StartedPcs == {"loop", "beat", "exit", "stopBroadcast"}

\* While start() has been called and stop() has not, broadcastState_ tells how
\* far the worker is; it keeps its last value when the worker finishes early.
StateShowsProgress ==
  \/ workerPc \in {"subscribe", "connect", "toStreaming"} /\ broadcastState = "Starting"
  \/ /\ workerPc \in {"require", "awaitOpen", "startBroadcast", "toLive"}
     /\ broadcastState = "Streaming"
  \/ workerPc \in {"callStarted", "loop", "beat", "exit"} /\ broadcastState = "Live"
  \/ workerPc = "done" /\ broadcastState \in {"Streaming", "Live"}

AppInv ==
  /\ appPc = "created" =>
       broadcastState = "Offline" /\ workerPc = "none" /\ subscription = "null"
  /\ appPc = "running" => StateShowsProgress
  /\ appPc \in {"reset", "join"} => broadcastState = "Stopping"
  /\ appPc \in {"stopped", "released"} =>
       broadcastState = "Offline" /\ workerPc \in {"none", "done"}

WorkerInv ==
  /\ workerPc \in OnAirPcs \cup {"startBroadcast"} => opened
  /\ workerPc \in OnAirPcs => stageStarted
  /\ workerPc \in BeforeRequest => ~stageStarted
  /\ workerPc \in {"undoStart", "stopBroadcast"} => broadcastState = "Stopping"
  /\ workerPc \in StartedPcs => started
  /\ started => workerPc \in StartedPcs \cup {"done"}
  /\ workerPc = "exit" /\ broadcastState # "Stopping" => "Disconnected" \in reported
  /\ AnswersAgree
  /\ StageLeftLiveOnlyIf

FailuresInv == workerPc \notin {"exit", "stopBroadcast", "done"} => failures <= MaxFailures

SubscriptionInv ==
  /\ workerPc \in BeforeConnect => wsPc = "idle" /\ subscription \in {"null", "fresh"}
  /\ workerPc \in {"none", "subscribe"} => subscription = "null"
  /\ appPc = "running" /\ workerPc # "subscribe" => subscription # "null"

WsInv ==
  /\ wsPc \in {"checkOnline", "checkLive", "failTakeover"} => SeenOnStage(subscriptionState)
  /\ wsPc = "failTakeover" => workerPc \notin BeforeConnect \cup {"toStreaming"}
  /\ TakeoverJustified

LifetimeInv ==
  /\ ~alive => appPc = "released" /\ wsPc \notin HoldingPcs /\ subscription = "null"
  /\ FaultsNeedStop
  /\ LiveOnlyWhenReady

\* The conjunction the proofs carry through every step.
IInv ==
  TypeOK /\ AppInv /\ WorkerInv /\ FailuresInv /\ SubscriptionInv /\ WsInv /\ LifetimeInv
=============================================================================
