CONSTANTS
  PIPELINE_ORDER <- TwoStages
  PageSize = 1
  MaxRuns = 2
  MaxMounts = 2
  MaxPresses = 4
  MaxFaults = 1
SPECIFICATION FairSpec
INVARIANTS TypeOK ChainInOrder
PROPERTIES RunAllReturns
CHECK_DEADLOCK FALSE
