SPECIFICATION Spec
CONSTANTS
  Procs = {p1, p2}
  Dids = {d1, d2}
  EncTimeout = 3
  SignTimeout = 2
  Period = 1
  MaxTime = 5
SYMMETRY Symmetry
INVARIANTS KeysExpire KeysAreForgotten
