SPECIFICATION Spec
CONSTANTS
  Loop = loop
  Request = {r1}
  Slots = 3
  Short = {m1}
  Long = {m2}
  Apn = {a1}
  Nothing = nothing
  MaxChanges = 2
  MaxFailures = 1
INVARIANTS
  DeletesAllSegments
