\* Everything the master, the network and the heap may do.
CONSTANTS
  Sent = {"SETTING", "DELETE_FILE", "START_PREVIEW"}
  Misread = {"SETTING", "START_RECORD"}
  Allowed = {"nosocket", "lost", "reordered", "severed", "refused", "othersocket", "unread", "memory", "both", "toolong"}
  MaxSent = 3
SPECIFICATION FairSpec
INVARIANTS
  TypeOK
  RecvNeverBlocks
  RoundsBalance
PROPERTIES
  RepeatsWithinRound
  Drains
  ServiceSteps
CHECK_DEADLOCK FALSE
