SPECIFICATION FairSpec
CONSTANTS
  StaleTimeout = 3
  Heartbeat = 1
  MaxTxs = 4
CHECK_DEADLOCK FALSE
INVARIANTS
  TypeOK
  PassedOnceInOrder
  NothingLostWhileOpen
  EndsForCause
PROPERTIES
  CanceledCloses
  DownComesBack
