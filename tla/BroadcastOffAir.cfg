\* "ending broadcast": is the broadcast off the air once stop() has returned?
SPECIFICATION Safe
CONSTANTS
  MaxFailures = 1
  MaxTry = 2
INVARIANTS
  StoppedMeansOffAir
CHECK_DEADLOCK FALSE
