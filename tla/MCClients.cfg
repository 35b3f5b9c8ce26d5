SPECIFICATION ClientsSpec
CONSTANTS
  Lists <- MCLists
  None = None
  MaxChanges = 3
  MaxRestarts = 3
  Callers = {a, b}
  NoToken = NoToken
  Lifetime = 6
  Fallback = 5
  Margin = 2
  Timeout = 1
  MaxNow = 14
  Users = {u, v}
  Watcher = watcher
  MaxEras = 3
  MaxFaults = 1
INVARIANTS
  ClientsTypeOK
  SentTokenIsGood
PROPERTIES
  SkipsOnlyWhatGoogleHas
  RefusedOnlyIfDisturbed
  SessionSettles
\* The bridge may run for good with nothing left to change or to sync.
CHECK_DEADLOCK FALSE
