SPECIFICATION MCSpec
CONSTANTS
  Sender = {s1, s2}
  Other = other
  Nobody = nobody
  MaxParts = 2
  MaxCommands = 2
  MaxRefusals = 1
  MaxDrops = 1
  MaxPayload = 8192
  MaxSingle7 = 10
  MaxPart7 = 9
  MaxSingle16 = 3
  MaxPart16 = 2
  MaxSingle8 = 5
  MaxPart8 = 4
  MaxStream = 5
  MaxFormat = 5
  MaxText = 11
SYMMETRY SenderSymmetry
CHECK_DEADLOCK FALSE
INVARIANTS
  TypeOK
  SentMeansAccepted
  ErrorLeavesPrefix
  PromptIsServed
  ReaderIsRobust
  FormatIsSplitRight
  SentTextArrives
  SubmitReadsBack
  LongMessageIsListedOnce
PROPERTIES
  PduModeHolds
