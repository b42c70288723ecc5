CONSTANTS
  root = root
  first = first
  second = second
  home = home
  away = away
  Job = {root, first, second}
  NoJob = NoJob
  Queue = {home, away}
  Flows <- MCFlows
  MaxClaims = 3
  Happens = {"stall", "clean", "reprocess", "removeJob", "removeChildDependency", "removeUnprocessedChildren", "drain", "addChild", "addAlone"}
  MaxHappens = 1
SPECIFICATION FairSpec
INVARIANTS
  DepsOK
  WaitsForSomething
PROPERTIES
  ChildrenFirst
  FamilyKeepsLeases
  FlowEnds
CHECK_DEADLOCK FALSE
