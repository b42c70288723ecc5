CONSTANTS
  Job = {j1, j2}
  NoJob = NoJob
  Concurrency = 1
  MaxTime = 2
  MaxToken = 3
  Happens = {"limit", "reply", "listener"}
  MaxHappens = 1
SPECIFICATION Spec
PROPERTIES
  Served
  CloseEnds
CHECK_DEADLOCK FALSE
