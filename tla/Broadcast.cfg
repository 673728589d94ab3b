\* One broadcast: two failed heartbeats end it, two delays between retries.
SPECIFICATION Spec
CONSTANTS
  MaxFailures = 1
  MaxTry = 2
INVARIANTS
  AnswersAgree
  StageLeftLiveOnlyIf
  TakeoverJustified
  DestroyedOnlyWhenUnused
  FaultsNeedStop
PROPERTIES
  LegalTransitions
  StageProgressKept
  ImplementsLifecycle
  ImplementsCallbacks
  ImplementsSlot
  StopReturns
  StartAnswered
  SubscriptionRetried
\* The object ends destroyed: the system stops.
CHECK_DEADLOCK FALSE
