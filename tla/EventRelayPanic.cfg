CONSTANTS
  j1 = j1
  Jobs = {j1}
  Sockets = {s1}
  Watches <- OneRun
  Panels = {}
  Outcomes = {"succeeded", "failed"}
  BufCap = 2
  MaxLogs = 1
  MaxFaults = 0
SPECIFICATION Spec
INVARIANTS SafeForConcurrentUse
CHECK_DEADLOCK FALSE
