\* Three objects and three connections.
CONSTANTS
  Subs = {s1, s2, s3}
  Conns = {c1, c2, c3}
  NoSub = NoSub
  NoConn = NoConn
SPECIFICATION Spec
INVARIANTS
  SubscribedIsOwned
  OneStageFeed
  FaultsAreOvertakings
PROPERTIES
  JoinReturns
  KeepsToSlot
\* The client ends destroyed: the system stops.
CHECK_DEADLOCK FALSE
