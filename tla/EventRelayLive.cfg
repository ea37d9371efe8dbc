CONSTANTS
  j1 = j1
  Jobs = {j1}
  Sockets = {s1}
  Watches <- OneRun
  Panels = {s1}
  Outcomes = {"succeeded", "partial", "cancelled"}
  BufCap = 1
  MaxLogs = 2
  MaxFaults = 2
SPECIFICATION FairSpec
PROPERTIES WatcherReturns
CHECK_DEADLOCK FALSE
