SPECIFICATION FairSpec
CONSTANTS
  Conn = {a, b}
  a = a
  b = b
  c3 = c3
  MaxHolds = 1
  MaxCommands = 1
PROPERTIES
  HoldAcknowledged
  RequestServed
  SignalStops
  AbandonedPauseEnds
