\* The use of x264_picture_clean, when STOP comes before the encoder is up.
CONSTANTS
  Thread = {t1, t2}
  NULL = NULL
  NoFd = NoFd
  Stdin = Stdin
  NoThread = NoThread
  Granted = {2}
  Allowed = {"early"}
SPECIFICATION Spec
INVARIANT CleanAllocatedOnly
CHECK_DEADLOCK FALSE
