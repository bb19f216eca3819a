SPECIFICATION FairSpec
CONSTANTS
  Requests = {r1, r2, r3}
  Asks = {a1, a2}
  End = End
  NoAsk = NoAsk
  Stalls = {5, 12}
  RetireTimeout = 10
  RetireWait = 16
  StopGrace = 5
  WorkerLease = 15
  DrainTimeout = 5
  ShutdownDrain = 5
INVARIANTS
  TypeOK
  OpenHostMeansOpenWorker
PROPERTIES
  RetirementIsAtomic
  AdmissionComesBack
