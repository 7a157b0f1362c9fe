SPECIFICATION Spec
CONSTANTS
  StaleTimeout = 3
  Heartbeat = 1
  MaxTxs = 4
CHECK_DEADLOCK FALSE
INVARIANTS
  StaleMeansDead
