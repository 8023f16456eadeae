SPECIFICATION Spec
CONSTANTS
  Models <- Catalog
  Model <- Cataloged
  BackendOf <- Backends
  FamilyOf <- Families
  DefaultOf <- Defaulted
  Microphones <- Inventory
  MaxSaves = 5
  MaxBacks = 1
  Id = {"one", "two"}
  Variant = {"x", "y"}
  Encoder = {"base"}
  MaxAliases = 1
  MaxWordEdits = 4
  MaxServiceCommands = 2
  Frame = 2
  PreRoll = 4
  PostRoll = 3
  MaxUtterance = 13
  EndSilence = 2
  MaxBack = 5
  MaxFrames = 12
  EnabledWords = {"a", "b"}
  Manifest <- Manifests
  Heard <- Hearings
  Early = 1
  Late = 1
  Editors = {e1, e2}
  Bad = {e2}
  Torn = Torn
  Missing = Missing
  Nobody = Nobody
INVARIANTS
  UtteranceExact
  ReportTrue
  ReviewedIsSaved
  ServiceUndone
  WholeUnderReservation
  SavedIsRunning
  FailedIsUndone
PROPERTIES
  WordsKept
CHECK_DEADLOCK FALSE
