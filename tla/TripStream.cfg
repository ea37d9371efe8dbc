CONSTANTS
  Conns = {c1, c2}
  None = None
  BufCap = 1
  MaxShown = 2
  MaxTrips = 2
  MaxFaults = 1
SPECIFICATION Spec
INVARIANTS TypeOK WindowMatchesTrips FeedNewestFirst OneConnection
PROPERTIES HandlersReturn TopicIsRead FeedComesBack
CHECK_DEADLOCK FALSE
