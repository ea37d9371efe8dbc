CONSTANTS
  Runs = {r1, r2}
  Unhandled = {r2}
  Cancellers = {c1, c2}
  FreshDeploy = TRUE
  MaxFaults = 1
SPECIFICATION FairSpec
INVARIANTS TypeOK AtMostOnce EventsFollowRow BlastRadius
PROPERTIES PromiseKept EveryRunSettles
CHECK_DEADLOCK FALSE
