CONSTANTS
  root = root
  first = first
  second = second
  home = home
  away = away
  Job = {root, first, second}
  NoJob = NoJob
  Queue = {home, away}
  Flows <- MCPair
  MaxClaims = 3
  Happens = {}
  MaxHappens = 0
SPECIFICATION Spec
INVARIANTS
  ParentsAreProcessed
CHECK_DEADLOCK FALSE
