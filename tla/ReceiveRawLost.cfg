SPECIFICATION Spec
CONSTANTS
  NMsgs = 3
  Malformed = {}
  Refused = {}
  MaxReceives = 3
  MaxRetries = 0
  MaxFaults = 1
  MaxCrashes = 0
PROPERTIES
  RawIsProcessed
CHECK_DEADLOCK FALSE
