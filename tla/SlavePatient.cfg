\* A patient master, no errors; SETTING and its payload among the commands.
CONSTANTS
  Thread = {t1, t2}
  NULL = NULL
  NoFd = NoFd
  Stdin = Stdin
  NoThread = NoThread
  Granted = {2}
  Sent = {"START_PREVIEW", "STOP_PREVIEW", "TAKE_PHOTO", "SETTING"}
  Misread = {"START_PREVIEW", "STOP_PREVIEW", "TAKE_PHOTO"}
  MaxSent = 4
  Tolerated = {"both"}
  Master = {TRUE}
SPECIFICATION FairSpec
INVARIANTS
  TypeOK
  MisuseCause
  Agrees
PROPERTY StopReachesCamera
CHECK_DEADLOCK FALSE
