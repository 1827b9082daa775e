SPECIFICATION RunningSpec
CONSTANTS
  Id = {i1, i2}
  Request = {r1}
  Cleaner = cleaner
  NoSession = none
  Duration = 1
  MaxTime = 2
  MaxFailures = 1
  MaxCrashes = 1
INVARIANTS
  DestroyedStaysDestroyed
  CreatedSurvives
  FileCatchesUp
PROPERTIES
  EveryRequestReturns
  ExpiredIsForgotten
