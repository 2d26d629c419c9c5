\* The server stops once it is terminated, aborted or exited.
CHECK_DEADLOCK FALSE
SPECIFICATION Lab1Spec
CONSTANTS
  t1 = t1
  t2 = t2
  t3 = t3
  ann = ann
  bob = bob
  cid = cid
  Threads = {t1, t2, t3}
  NoThread = NoThread
  Freed = Freed
  Registered <- People
  LoginAs <- OwnNames
  Commands <- OneLogsIn
  MaxCreated = 2
  MAX_SESSION = 2
  Serial = FALSE
INVARIANTS
  ListsAgree
  LoginsLoseNobody
  BroadcastFindsSender
PROPERTY
  Implements
