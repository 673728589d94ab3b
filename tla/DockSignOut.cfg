\* "Disable sign out button when streaming": does nobody sign out under a broadcast?
CONSTANTS
  MaxQueue = 1
  MaxSignals = 1
SPECIFICATION Safe
INVARIANTS
  NoSignOutWhenStreaming
CHECK_DEADLOCK FALSE
