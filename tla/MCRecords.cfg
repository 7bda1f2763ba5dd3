CONSTANTS
  Procs = {p1, p2}
  Users = {u1}
  Legislators = {l1}
  System = system
  Names = {n1, n2}
  Phones = {x1}
  Bills = {b1}
SYMMETRY Symmetry
SPECIFICATION Spec
CONSTRAINT OneRepo
INVARIANTS TypeOK DbNameWasRecorded EditsAgree
PROPERTIES CreatedOnce
