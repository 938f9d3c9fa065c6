SPECIFICATION Spec
CONSTANTS
  Starters = {"a", "b"}
  MaxPreKeys = 2
  MaxSends = 3
  MaxCrashes = 1
  MaxReKeys = 1
INVARIANTS
  TypeOK
  KeyUsedOnce
  ConsumedKeyGone
  NothingRejected
  Converged
CHECK_DEADLOCK FALSE
