\* Clicks while a call is posted, one stop signal of OBS outstanding.
SPECIFICATION Spec
CONSTANTS
  MaxQueue = 1
  MaxSignals = 1
INVARIANTS
  LiveMeansEndShow
  CredentialsGoneOnlyIf
  UnstreamedOnlyIf
PROPERTIES
  UsesBroadcastRightly
  UiReturns
  StopSignalEndsBroadcast
  ButtonComesBack
\* The dock ends destroyed, or the process dead: the system stops.
CHECK_DEADLOCK FALSE
