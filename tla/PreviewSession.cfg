\* No obligation is broken.
CONSTANTS
  Thread = {t1, t2, t3}
  NULL = NULL
  NoFd = NoFd
  Stdin = Stdin
  NoThread = NoThread
  Granted = {2, 3}
  Allowed = {}
SPECIFICATION FairSpec
PROPERTY ImplementsSession
CHECK_DEADLOCK FALSE
