CONSTANTS
  Job = {j1, j2}
  Token = {t1, t2}
  Session = {s1, s2}
  NoToken = NoToken
  NoSeq = NoSeq
  NoSession = NoSession
  NoJob = NoJob
  Priority = {0}
  Calls = {"fetch", "finish", "sweep", "add", "promote", "pause", "resume"}
  MaxStalled = 1
  Concurrency = 1
  RateMax = 1
  MaxStarts = 2
SPECIFICATION Spec
SYMMETRY Symmetry
PROPERTIES
  LockKeeps
  LeaseKept
CHECK_DEADLOCK FALSE
