SPECIFICATION Spec
CONSTANTS
  Callers = {c1, c2}
  Timer = Timer
  Processes = {g1, g2}
  NoProcess = NoProcess
  Sessions = {s}
  RetryLimit = 1
  Oversized = TRUE
SYMMETRY Symmetry
INVARIANTS
  TypeOK
  OneConnectedWorker
  RetryIsForTheDead
PROPERTIES
  PurposeIsNoCrash
  ClosedStartsNothing
