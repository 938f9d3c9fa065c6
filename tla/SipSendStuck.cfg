SPECIFICATION FairSpec
CONSTANTS
  NMsgs = 1
  MaxSessions = 2
  MaxOthers = 0
  KeepSlots = 1
  MaxWakeups = 0
PROPERTIES
  QueuedIsSent
CHECK_DEADLOCK FALSE
