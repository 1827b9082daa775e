SPECIFICATION TimedSpec
CONSTANTS
  Caller = {c1, c2}
  MaxOps = 2
  MaxSessions = 1
  Cap = 1
  AnswerLength = 1
PROPERTIES
  EveryCallReturns
