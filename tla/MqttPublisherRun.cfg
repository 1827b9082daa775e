SPECIFICATION Spec
CONSTANTS
  Callback = {c1, c2}
  Known = {k1}
  Unknown = unknown
  Nothing = nothing
  Sensors = 2
  MaxChanges = 1
  MaxConnects = 2
INVARIANTS
  TypeOK
  NoSensorForgotten
PROPERTIES
  PublishedCatchesUp
  SensorsAnnounced
