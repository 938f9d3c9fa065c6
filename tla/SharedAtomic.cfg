SPECIFICATION SharedSpec
CONSTANTS
  NMsgs = 2
  Malformed = {}
  Refused = {}
  MaxReceives = 2
  MaxRetries = 0
  MaxFaults = 0
  MaxCrashes = 0
  MaxGroupOps = 1
INVARIANTS
  DuplicateMeansHandled
CHECK_DEADLOCK FALSE
