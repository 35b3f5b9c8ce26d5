SPECIFICATION Mp4FairSpec
CONSTANTS
  Requests = {v1, v2}
  MaxSessions = 2
  SubChanCap = 1
INVARIANTS
  Mp4TypeOK
  StopLeavesNothing
  NothingFromAnEarlierSession
PROPERTIES
  IdleUpstreamCloses
  DisconnectedRequestsEnd
\* All requests may have been served.
CHECK_DEADLOCK FALSE
