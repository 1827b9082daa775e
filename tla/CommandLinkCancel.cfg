SPECIFICATION Spec
CONSTANTS
  Caller = {c1}
  MaxOps = 1
  MaxSessions = 1
  Cap = 1
  AnswerLength = 2
INVARIANTS
  CancelWakesReader
