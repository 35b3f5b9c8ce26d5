SPECIFICATION ServerSpec
CONSTANTS
  Requests = {v1, v2, v3}
  Muxers = {m1, m2, m3}
  NoMuxer = NoMuxer
  URLs = {u1, u2}
  NoURL = NoURL
  Notifiers = {refresh, setup}
  MaxChanges = 3
INVARIANTS
  HiddenIsCutOff
CHECK_DEADLOCK FALSE
