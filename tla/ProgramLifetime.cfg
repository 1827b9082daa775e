SPECIFICATION Spec
CONSTANTS
  Request = {r1, r2}
  Loop = loop
  Nobody = nobody
  Commands = 2
INVARIANTS
  TypeOK
  RequestsAreServed
PROPERTIES
  ProgramEnds
