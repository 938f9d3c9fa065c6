SPECIFICATION FairSpec
CONSTANTS
  NMsgs = 3
  MaxSessions = 3
  MaxOthers = 1
  KeepSlots = 2
  MaxWakeups = 1
INVARIANTS
  TypeOK
  ReportedOnce
  LeftOverIsFlagged
PROPERTIES
  BoxSpec
  ActiveDrains
  EachReported
CHECK_DEADLOCK FALSE
