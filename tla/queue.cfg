CONSTANTS
  Job = {j1, j2}
  Token = {t1, t2}
  NoToken = NoToken
  NoSeq = NoSeq
  Priority = {0, 1}
  MaxStalled = 0
  Bypass = Bypass
  NoJob = NoJob
  Concurrency = 1
  RateMax = 1
  MaxStarts = 1
  MinSeq = 0
  MaxSeq = 2
SPECIFICATION Spec
SYMMETRY Symmetry
INVARIANTS
  RowsOK
  ListsAgree
PROPERTIES
  LimitsKept
  LeaseKept
CHECK_DEADLOCK FALSE
