SPECIFICATION Spec
CONSTANTS
  a = a
  b = b
  c = c
  Models <- MCModels
  Profiles <- MCProfiles
  Window <- MCWindow
  Lengths = {1, 2, 3}
  Choosers = {x}
  None = None
INVARIANTS
  TypeOK
  StandsOnSelected
PROPERTIES
  OneTryEach
  FailoverEnds
  FailoverDescends
CHECK_DEADLOCK FALSE
