SPECIFICATION Spec
CONSTANTS
  Daemon = {"d1", "d2", "d3"}
  Client = {"c1"}
  Identities <- MCIdentities
INVARIANTS
  OneDaemonPerConfig
  NotAllRefused
  Reachable
CHECK_DEADLOCK FALSE
