\* The assertion of read_frame, when START comes while a preview runs.
CONSTANTS
  Thread = {t1, t2}
  NULL = NULL
  NoFd = NoFd
  Stdin = Stdin
  NoThread = NoThread
  Granted = {2}
  Allowed = {"overlap"}
SPECIFICATION Spec
INVARIANT IndexAssertion
CHECK_DEADLOCK FALSE
