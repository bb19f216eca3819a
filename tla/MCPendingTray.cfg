SPECIFICATION Spec
CONSTANTS
  Written = 3
  PendingMax = 2
INVARIANTS
  TypeOK
  OnePlace
  HandedOnce
  HandedInOrder
  OnItsWay
PROPERTY
  WaitedGoesIn
