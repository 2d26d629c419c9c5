\* A server that has closed its socket or a client with a verdict stops.
CHECK_DEADLOCK FALSE
SPECIFICATION FairSpec
CONSTANTS
  TotalFrag = 3
  ALIVE = 3
  NetCap = 3
  MaxDup = 1
  LastFlag <- AnyByte
INVARIANT
  NothingMissingBeforeLast
PROPERTIES
  Implements
  SendingEnds
