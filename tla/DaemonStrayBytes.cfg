SPECIFICATION FairSpec
CONSTANTS
  Conn = {a}
  a = a
  b = b
  c3 = c3
  MaxHolds = 1
  MaxCommands = 2
PROPERTIES
  ExtraBytesRelease
