\* The loop ends.
CHECK_DEADLOCK FALSE
SPECIFICATION Spec
CONSTANTS
  DATA_SIZE = 5
  FileLengths <- AllLengths
INVARIANTS
  LastReadReachesEnd
  OutputLengthOffMultiples
