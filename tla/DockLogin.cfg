\* "A broadcast is already online": is one, when a sign-in is refused for it?
CONSTANTS
  MaxQueue = 1
  MaxSignals = 1
SPECIFICATION Safe
INVARIANTS
  AlreadyMeansOnline
CHECK_DEADLOCK FALSE
