\* The server stops once it is terminated, aborted or exited.
CHECK_DEADLOCK FALSE
SPECIFICATION Spec
CONSTANTS
  t1 = t1
  t2 = t2
  t3 = t3
  ann = ann
  bob = bob
  cid = cid
  Threads = {t1, t2, t3}
  NoThread = NoThread
  Freed = Freed
  Registered <- People
  LoginAs <- OwnNames
  Commands <- Guests
  MaxCreated = 1
  MAX_SESSION = 1
  Serial = FALSE
SYMMETRY SwapGuests
INVARIANTS
  TypeOK
  TerminatedMeansIdle
  ListsAgree
  LeavingNeverAsserts
PROPERTY
  Implements
