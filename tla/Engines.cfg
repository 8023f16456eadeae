CONSTANTS
  Streams = 2
  Frames = 2
  Launches = 2
  Slots = 1
  Wire = 2
SPECIFICATION Spec
PROPERTIES
  KeepsContract
  FailsForAReason
  CallReturns
  WorkersEnd
CHECK_DEADLOCK FALSE
