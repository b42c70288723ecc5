CONSTANTS
  Job = {j1, j2}
  NoJob = NoJob
  Concurrency = 2
  MaxTime = 2
  MaxToken = 4
  Happens = {"limit", "moved", "reply", "lease", "pause", "retry", "back", "listener"}
  MaxHappens = 1
SPECIFICATION Spec
SYMMETRY Symmetry
INVARIANTS
  ClaimedIsHeld
  LocksOK
  SleepIsCovered
CHECK_DEADLOCK FALSE
