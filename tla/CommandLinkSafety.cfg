SPECIFICATION Spec
CONSTANTS
  Caller = {c1, c2}
  MaxOps = 2
  MaxSessions = 2
  Cap = 2
  AnswerLength = 2
INVARIANTS
  TypeOK
  UnlocksWhatItHolds
  ActiveIsCurrent
  FreshAnswers
  AnswersStayOnTheirConnection
  ConfirmedMeansAccepted
  RoomForFreshAnswer
PROPERTIES
  Contiguous
  ImplementsSerialLink
