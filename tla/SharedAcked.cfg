SPECIFICATION SharedFairSpec
CONSTANTS
  NMsgs = 4
  Malformed = {2}
  Refused = {3}
  MaxReceives = 2
  MaxRetries = 0
  MaxFaults = 1
  MaxCrashes = 1
  MaxGroupOps = 2
INVARIANTS
  AckedQueued
PROPERTIES
  AckedHandled
CHECK_DEADLOCK FALSE
