SPECIFICATION Spec
CONSTANTS
  Files = {p, q}
  NoFile = NoFile
  Requests = {h1, h2}
  SafetyMax = 2
  Forking = TRUE
INVARIANTS
  QuietMeansUncounted
