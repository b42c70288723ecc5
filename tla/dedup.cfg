CONSTANTS
  c1 = c1
  c2 = c2
  Client = {c1, c2}
  Options <- MCOptions
  MaxAdds = 3
  Happens = {"lost", "back", "sweep", "key", "remove", "drain", "reprocess"}
  MaxHappens = 2
SPECIFICATION FairSpec
INVARIANTS
  OneAtATime
  KeyOK
  StashHeld
PROPERTIES
  StashRuns
CHECK_DEADLOCK FALSE
