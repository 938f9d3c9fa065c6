SPECIFICATION Spec
CONSTANTS
  Devices = {d1, d2, d3}
  MaxEvents = 6
  MaxInterleaved = 0
SYMMETRY Symmetry
CONSTRAINT FewIds
INVARIANTS
  ClockNamesValue
CHECK_DEADLOCK FALSE
