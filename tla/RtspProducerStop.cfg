SPECIFICATION FairSpec
CONSTANTS
  Clients = {c1, c2}
  NoClient = NoClient
  MaxStarts = 1
PROPERTIES
  StopTerminates
CHECK_DEADLOCK FALSE
