\* No two previews at a time and a device that works; the master may stop too
\* early, and threads and encoder may not start.
CONSTANTS
  Thread = {t1, t2, t3}
  NULL = NULL
  NoFd = NoFd
  Stdin = Stdin
  NoThread = NoThread
  Granted = {1, 2, 3}
  Allowed = {"early", "nothread", "photo", "thread", "encoder"}
SPECIFICATION FairSpec
INVARIANTS
  TypeOK
  FaultCause
  StopReleasesAll
  BuffersConserved
PROPERTIES
  StopCompletes
  SessionSteps
CHECK_DEADLOCK FALSE
