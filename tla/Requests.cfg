\* Two callers, a first attempt and a last one, two refreshes.
SPECIFICATION Spec
CONSTANTS
  Callers = {c1, c2}
  NumRetries = 2
  MaxIssue = 3
INVARIANTS
  NeverResendsRefused
  AttemptsBounded
  RepeatedOnlyByRetries
PROPERTIES
  EveryCallReturns
