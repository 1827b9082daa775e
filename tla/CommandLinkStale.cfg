SPECIFICATION Spec
CONSTANTS
  Caller = {c1, c2}
  MaxOps = 2
  MaxSessions = 1
  Cap = 2
  AnswerLength = 2
INVARIANTS
  ResponseIsOwn
