SPECIFICATION Spec
CONSTANTS
  Cameras = {c1}
  u1 = u1
  URLs = {u1}
  NoURL = NoURL
  Initial <- MCInitial
  Refreshers = {ticker, debounce}
  Nobody = Nobody
  Editors = {e1}
  MaxChanges = 2
  MaxApplies = 1
PROPERTIES
  ReexposedIsReported
SYMMETRY Symmetry
