SPECIFICATION Spec
CONSTANTS
  Paths = {p1, p2}
  Requests = {r1, r2}
  Writers = {w1, w2}
  NoWriter = NoWriter
  MaxGates = 2
INVARIANTS
  TypeOK
  ReaderWriterExclusion
  CountersExact
  ExpiredGateHasNoWaiters
  NoMoveOvertakesAWaiter
PROPERTIES
  LeaseGivesAuthority
  OnlySettledGatesPass
  ParkedRequestsEnd
