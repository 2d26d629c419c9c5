\* A server that gave up or a client that waits for a lost handshake stops.
CHECK_DEADLOCK FALSE
SPECIFICATION FairSpec
CONSTANTS
  TotalFrag = 3
  ALIVE = 2
  NetCap = 2
  MaxDup = 1
  TimerChoices <- TimerMayBeZero
  FinText <- LastTwoReadFin
INVARIANTS
  TypeOK
  InStep
  DoneMeansDelivered
  NoIndexUnderflow
  
  NothingMissingAfterLoop
PROPERTIES
  Implements
  SendingEnds
  FinWaitEnds
  ServerLeavesLoop
