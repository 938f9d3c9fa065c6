SPECIFICATION FairSpec
CONSTANTS
  NMsgs = 4
  Malformed = {0}
  Refused = {1}
  MaxReceives = 2
  MaxRetries = 1
  MaxFaults = 1
  MaxCrashes = 2
CONSTRAINT TrafficOrTroubles
INVARIANTS
  TypeOK
  DuplicateMeansHandled
  DeliveryPaid
  ReceiptIsTruthful
PROPERTIES
  RawHandover
  LeftOverHandled
CHECK_DEADLOCK FALSE
