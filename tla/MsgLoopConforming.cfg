\* A conforming master, no errors; both sockets may be ready at a time.
CONSTANTS
  Sent = {"SETTING", "START_RECORD", "STOP_RECORD"}
  Misread = {}
  Allowed = {"both"}
  MaxSent = 5
SPECIFICATION FairSpec
PROPERTY ImplementsCommands
CHECK_DEADLOCK FALSE
