CONSTANTS
  j1 = j1
  Jobs = {j1}
  Sockets = {s1, s2}
  Watches <- OneRun
  Panels = {s2}
  Outcomes = {"succeeded", "cancelled"}
  BufCap = 2
  MaxLogs = 0
  MaxFaults = 1
SPECIFICATION Spec
INVARIANTS TypeOK RegistryExact ResolvedTruthfully
PROPERTIES ResultIsLastFrame
CHECK_DEADLOCK FALSE
