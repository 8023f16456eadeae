SPECIFICATION Spec
CONSTANTS
  Daemon = {"d1", "d2", "d3"}
  Client = {"c1"}
  Identities <- MCIdentities
PROPERTIES
  OnlyStaleRemoved
CHECK_DEADLOCK FALSE
