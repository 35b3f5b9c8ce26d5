SPECIFICATION Mp4Spec
CONSTANTS
  Requests = {v1, v2}
  MaxSessions = 2
  SubChanCap = 1
PROPERTIES
  StreamsUntilSessionEnds
CHECK_DEADLOCK FALSE
