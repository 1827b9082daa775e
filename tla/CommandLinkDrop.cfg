SPECIFICATION ManagedSpec
CONSTANTS
  Caller = {c1}
  MaxOps = 2
  MaxSessions = 2
  Cap = 1
  AnswerLength = 2
PROPERTIES
  DropClosesInteractive
  DropWakesCaller
