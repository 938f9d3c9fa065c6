SPECIFICATION Spec
CONSTANTS
  Devices = {d1, d2, d3}
  MaxEvents = 4
  MaxInterleaved = 3
SYMMETRY Symmetry
CONSTRAINT FewOverlap
INVARIANTS
  TypeOK
  Converged
  LatestWins
PROPERTIES
  NeverBack
CHECK_DEADLOCK FALSE
