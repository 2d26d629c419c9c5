\* The user stops typing.
CHECK_DEADLOCK FALSE
SPECIFICATION Spec
CONSTANTS
  MAX_SESSION = 2
  Lines <- UsualLines
  NoId = NoId
  MaxLines = 7
  MaxOthers = 1
  Existing <- Others
  FirstNew = 3
  Waits = TRUE
INVARIANTS
  CountIsNumber
