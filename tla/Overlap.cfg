CONSTANTS
  Thread = {t1, t2, t3}
  NULL = NULL
  NoFd = NoFd
  Stdin = Stdin
  NoThread = NoThread
  Granted = {2}
  Allowed = {"overlap", "early"}
  MaxAlive = 2
SPECIFICATION OverlapSpec
SYMMETRY Symmetry
INVARIANT FreshIsSafe
PROPERTY OverlapEndsCapture
CHECK_DEADLOCK FALSE
