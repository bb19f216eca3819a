SPECIFICATION Spec
CONSTANTS
  Files = {p, q}
  NoFile = NoFile
  Requests = {h1, h2}
  SafetyMax = 1
  Forking = FALSE
INVARIANTS
  TypeOK
  OneDriverPerFile
  InFlightExact
  ReleaseTakesIdleRuntimeOnly
PROPERTIES
  RetirementEndsNoWork
  FenceReopens
