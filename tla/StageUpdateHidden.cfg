\* "Hide this after updated are sent to backend": have they been, when it hides?
CONSTANT MaxValue = 2
SPECIFICATION Spec
\* The show is ended: the system stops.
CHECK_DEADLOCK FALSE
PROPERTY HiddenMeansSent
