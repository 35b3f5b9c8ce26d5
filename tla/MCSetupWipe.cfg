SPECIFICATION SetupSpec
CONSTANTS
  Savers = {h1, h2}
  Creds = {admin}
  CameraLists = {l1, l2}
  Unset = Unset
  MaxSaves = 3
  MaxRevocations = 1
PROPERTIES
  OtherGroupsUntouched
SYMMETRY Symmetry
