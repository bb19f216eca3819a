SPECIFICATION Spec
CONSTANTS
  Projects = {chat, app}
  Requests = {r1}
  MaxSaid = 2
INVARIANT
  NeverReopenedAfterMove
