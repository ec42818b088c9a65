\* Three previews one after the other; any call may fail, and STOP come early.
CONSTANTS
  Thread = {t1, t2, t3}
  NULL = NULL
  NoFd = NoFd
  Stdin = Stdin
  NoThread = NoThread
  Granted = {1, 2}
  Allowed = {"thread", "open", "buffers", "encoder", "capture", "early"}
SPECIFICATION Spec
SYMMETRY Symmetry
INVARIANT FaultCause
PROPERTY SelfEndKeepsCamera
CHECK_DEADLOCK FALSE
