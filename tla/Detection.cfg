SPECIFICATION Spec
CONSTANTS
  Capacity = 1
  x = x
  y = y
  Character = {x, y}
  WakeWords <- MCWakeWords
  Transcripts <- MCTranscripts
  MaxTodo = 2
  Slot = {a1, a2}
INVARIANTS
  MicReleased
  RightWords
PROPERTIES
  DropReturns
  LossNoticed
  ActionsReaped
CHECK_DEADLOCK FALSE
