\* Two values of each field.
CONSTANT MaxValue = 2
SPECIFICATION Spec
\* The show is ended: the system stops.
CHECK_DEADLOCK FALSE
INVARIANTS
  OneUpdateAtATime
  SentUnless
  HeldIsShown
