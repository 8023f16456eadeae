SPECIFICATION Spec
CONSTANTS
  Conn = {a, b, c3}
  a = a
  b = b
  c3 = c3
  MaxHolds = 2
  MaxCommands = 2
INVARIANTS
  NoOpenMicUnderHold
  AtMostOneAnswer
  NoActionWhilePaused
PROPERTIES
  HoldStays
  StatusTruthful
  ImplementsLease
SYMMETRY Symmetry
