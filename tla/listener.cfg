CONSTANTS
  Channel = {"marker", "delayed"}
  MaxClients = 6
  Happens = {"lost", "disconnect", "connect", "unsubscribe", "close"}
  MaxHappens = 2
SPECIFICATION FairSpec
INVARIANTS
  ClientsOK
  ListeningIsTrue
PROPERTIES
  Heard
  CloseEnds
CHECK_DEADLOCK FALSE
