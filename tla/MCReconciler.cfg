SPECIFICATION FairSpec
CONSTANTS
  Cameras = {c1}
  u1 = u1
  URLs = {u1, u2}
  NoURL = NoURL
  Initial <- MCInitial
  Refreshers = {ticker, debounce}
  Nobody = Nobody
  Editors = {e1, e2}
  MaxChanges = 2
  MaxApplies = 2
INVARIANTS
  TypeOK
  DiffIsAgainstCurrent
  ToldIsCurrent
  ExposedIsSynced
  ServersPruned
PROPERTIES
  InFlightFlipKept
  Converges
CONSTRAINT Focus
