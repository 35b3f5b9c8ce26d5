SPECIFICATION UpstreamsSpec
CONSTANTS
  Clients = {c1, c2, c3, c4}
  NoClient = NoClient
  MaxStarts = 2
  Wrap = 8
  Gaps <- MCGaps
  Rate = 3
  Second = 5
  MuxFallback = 1
  SampleFallback = 2
  MaxUnits = 5
  Players = {p1, p2}
  MaxHlsSessions = 2
  Sessions = {s1, s2}
  Streams = {st1, st2}
  NoStream = NoStream
  Free = Free
INVARIANTS
  RtspTypeOK
  StreamsTypeOK
  EverySessionOwned
  LoopRunsWhileWanted
  KeepsCameraTime
  RefsCountHolders
  HoldersWatchTheLiveRun
  UpstreamOnlyWhileUsed
PROPERTIES
  SessionsClose
  SharedSpec
  CloseCompletes
\* Stop and a callback may wait for each other: see StopTerminates.
CHECK_DEADLOCK FALSE
