SPECIFICATION ClientsSpec
CONSTANTS
  Lists <- MCLists
  None = None
  MaxChanges = 2
  MaxRestarts = 2
  Callers = {a}
  NoToken = NoToken
  Lifetime = 6
  Fallback = 5
  Margin = 2
  Timeout = 1
  MaxNow = 2
  Users = {u}
  Watcher = watcher
  MaxEras = 1
  MaxFaults = 1
PROPERTIES
  SkipsOnlyTheLastSync
\* The bridge may run for good with nothing left to change or to sync.
CHECK_DEADLOCK FALSE
