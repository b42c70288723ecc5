CONSTANTS
  Worker = {1, 2}
  Caller = {1, 2}
  Everys = {0, 1, 2}
  Period = 2
  Limit = 3
  MaxTime = 3
  MaxSlot = 7
  MaxEvents = 3
  Happens = {"remove", "error", "crash", "stall", "fail", "reprocess"}
  MaxHappens = 1
SPECIFICATION FairScheduler
INVARIANTS
  SlotsOK
  NextIsMade
PROPERTIES
  GoesOn
CHECK_DEADLOCK FALSE
