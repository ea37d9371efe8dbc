CONSTANTS
  Limit = 2
  Days <- SomeDays
  Speeds = {"5"}
  MaxClicks = 3
  MaxFaults = 1
SPECIFICATION Spec
INVARIANTS TypeOK CommandsKept CommandsTakeHold ResultIsEarned
PROPERTIES EveryReplayEnds
CHECK_DEADLOCK FALSE
