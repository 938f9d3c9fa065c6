SPECIFICATION Spec
CONSTANTS
  Starters = {"a", "b"}
  MaxPreKeys = 1
  MaxSends = 2
  MaxCrashes = 0
  MaxReKeys = 0
INVARIANTS
  NothingLost
CHECK_DEADLOCK FALSE
