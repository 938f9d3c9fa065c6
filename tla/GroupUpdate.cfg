SPECIFICATION Spec
CONSTANTS
  Devices = {d1, d2}
  Users = {u1}
  NoSet = NoSet
  MaxEdits = 2
  MaxSends = 3
  MaxLosses = 2
  MaxFailures = 2
CONSTRAINT FailuresOrAge
SYMMETRY Symmetry
INVARIANTS
  TypeOK
  NameAwaited
  AddAwaited
  UpdateEnds
  NameSettled
PROPERTIES
  CollapseTells
CHECK_DEADLOCK FALSE
