SPECIFICATION ServersSpec
CONSTANTS
  IPs = {ip1, ip2}
  Workers = {w1, w2}
  Codes = {k1}
  Exchanges = {x1, x2}
  Redirects = {r1, r2}
  CodeTTL = 1
  AccessTTL = 1
  RefreshTTL = 1
  FailWindow = 2
  MaxPerIP = 1
  MaxGlobal = 2
  MaxTime = 4
  MaxFails = 4
  Cameras = {cam}
  Intents = {i1}
  Viewers = {q1, q2}
  ReadTimeout = 1
  SignalTTL = 0
  PlayTTL = 1
  Requests = {q1, q2, v}
  Muxers = {x1, x2, m}
  NoMuxer = NoMuxer
  URLs = {r1, r2}
  NoURL = NoURL
  Notifiers = {w1, w2}
  MaxChanges = 3
  Savers = {q1, q2}
  Creds = {admin}
  CameraLists = {l1, l2}
  Unset = Unset
  MaxSaves = 3
  MaxRevocations = 1
SYMMETRY ServersSymmetry
INVARIANTS
  ApiTypeOK
  OneGrantPerConsent
  FailuresBounded
  ViewsFollowAccess
  HiddenStartsNothing
  ServerTypeOK
  RegisteredMuxerIsCurrent
  ServedByRegisteredMuxer
  SetupTypeOK
  SavesKeepOtherGroups
  LiveIsStored
PROPERTIES
  RefusedWereProbed
CONSTRAINT ServersFocus
\* All requests of stream viewers may have been served.
CHECK_DEADLOCK FALSE
