\* A master that waits, or does not; lost and reordered datagrams and ICMP errors.
CONSTANTS
  Thread = {t1, t2}
  NULL = NULL
  NoFd = NoFd
  Stdin = Stdin
  NoThread = NoThread
  Granted = {2}
  Sent = {"START_PREVIEW", "STOP_PREVIEW", "TAKE_PHOTO"}
  Misread = {}
  MaxSent = 4
  Tolerated = {"lost", "reordered", "refused", "both"}
  Master = {TRUE, FALSE}
SPECIFICATION Spec
INVARIANTS
  MisuseCause
  Agrees
  FramesWhole
PROPERTY StartsInTurn
CHECK_DEADLOCK FALSE
