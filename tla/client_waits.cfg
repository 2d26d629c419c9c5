\* The user stops typing.
CHECK_DEADLOCK FALSE
SPECIFICATION Spec
CONSTANTS
  MAX_SESSION = 2
  Lines <- AllLines
  NoId = NoId
  MaxLines = 6
  MaxOthers = 1
  Existing <- Others
  FirstNew = 3
  Waits = TRUE
INVARIANTS
  TypeOK
  EngagedIsListed
  ListedIsMember
  StaysBelowLimit
  AnswersAnInvitation
