\* "Disable the Button until it finishes the process": is it ever enabled again?
CONSTANTS
  MaxQueue = 1
  MaxSignals = 1
SPECIFICATION Spec
PROPERTIES
  ButtonAlwaysComesBack
CHECK_DEADLOCK FALSE
