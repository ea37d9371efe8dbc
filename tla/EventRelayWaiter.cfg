CONSTANTS
  j1 = j1
  Jobs = {j1}
  Sockets = {s1}
  Watches <- OneRun
  Panels = {}
  Outcomes = {"succeeded"}
  BufCap = 2
  MaxLogs = 0
  MaxFaults = 0
SPECIFICATION FairSpec
PROPERTIES WaiterResolves
CHECK_DEADLOCK FALSE
