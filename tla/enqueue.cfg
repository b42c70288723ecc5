CONSTANTS
  NoConn = NoConn
  Pool = Pool
  MaxConns = 2
  MaxCalls = 3
  MaxLong = 2
  MaxJobs = 2
  MaxFails = 1
SPECIFICATION FairSpec
INVARIANTS
  InCallOrder
  OutcomesHold
  ConnsOK
PROPERTIES
  Settles
CHECK_DEADLOCK FALSE
