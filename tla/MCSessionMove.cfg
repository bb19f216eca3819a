SPECIFICATION Spec
CONSTANTS
  Projects = {chat, app}
  Requests = {r1, r2}
  MaxSaid = 3
SYMMETRY Symmetry
INVARIANTS
  TypeOK
  NothingLost
  ClosedUnderMove
  OneFile
  
