\* The server stops once it is terminated, aborted or exited.
CHECK_DEADLOCK FALSE
SPECIFICATION Spec
CONSTANTS
  t1 = t1
  t2 = t2
  t3 = t3
  ann = ann
  bob = bob
  cid = cid
  Threads = {t1, t2}
  NoThread = NoThread
  Freed = Freed
  Registered <- People
  LoginAs <- OwnNames
  Commands <- NobodyRefused
  MaxCreated = 2
  MAX_SESSION = 2
  Serial = TRUE
INVARIANT
  ListsAgree
