SPECIFICATION Spec
CONSTANTS
  None = none
  Installer = {p1, p2}
  Preparer = {p1, p2}
  MaxAttempts = 2
  Recorder = {daemon, listen}
  MaxEvents = 2
  MaxIds = 4
  Voice = {v1, v2}
  MaxEdits = 1
  MaxCommands = 2
  MaxChanges = 1
INVARIANTS
  InstalledStays
  HistoryBounded
  HeardApproved
  HeadSound
  RecordingsKept
PROPERTIES
  SetupUndone
SYMMETRY Symmetry
CHECK_DEADLOCK FALSE
