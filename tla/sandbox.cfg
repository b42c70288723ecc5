CONSTANTS
  MaxJobs = 2
  MaxChildren = 2
  Happens = {"broken", "refused", "crash", "cancel", "force"}
  MaxHappens = 2
SPECIFICATION FairSpec
INVARIANTS
  PoolOK
  RunsApart
  EffectsFirst
PROPERTIES
  JobEnds
  CleanKills
CHECK_DEADLOCK FALSE
