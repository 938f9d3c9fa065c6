SPECIFICATION FairSpec
CONSTANTS
  MultiStream = {FALSE, TRUE}
  Versions1 = {{1}, {1, 2}}
  Versions2 = {{2}, {1, 2}}
  Departures = {"stop", "exhausted", "stray", "dropped"}
  MaxVariations = 1
INVARIANTS
  TypeOK
  KeysAgree
  SenderHeard
  FailureExplained
  SomeoneResends
PROPERTIES
  Agreement
CHECK_DEADLOCK FALSE
