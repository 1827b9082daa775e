SPECIFICATION Spec
CONSTANTS
  Request = {r1, r2}
  Value = {v1, v2}
  Nothing = nothing
  NoLine = noline
  Configs = 1
  Attempts = 3
  MaxConnects = 2
  MaxFailures = 2
CHECK_DEADLOCK FALSE
INVARIANTS
  TypeOK
PROPERTIES
  LoadedUnlessOvertaken
  
