SPECIFICATION Spec
CONSTANTS
  Capacity = 1
  x = x
  y = y
  Character = {x, y}
  WakeWords <- ShiftedWords
  Transcripts <- ShiftedTranscripts
  MaxTodo = 2
  Slot = {a1, a2}
INVARIANTS
  LongerPhraseWins
CHECK_DEADLOCK FALSE
