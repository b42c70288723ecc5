CONSTANTS
  Job = {j1}
  NoJob = NoJob
  Watcher = {w1}
  Froms = {"new", "all"}
  MaxLen = 0
  Page = 2
  Writers = 2
  MaxId = 4
  Happens = {"retry", "remove", "rollback", "trim"}
  MaxHappens = 1
SPECIFICATION FairSpec
INVARIANTS
  StreamOK
PROPERTIES
  NoneSkipped
  AnswersHold
  Settles
CHECK_DEADLOCK FALSE
