CONSTANTS
  Procs = {p1, p2}
  Users = {u1}
  Bills = {b1}
  Comments = {c1, c2}
  Choices = {1, 2}
SYMMETRY Symmetry
SPECIFICATION Spec
INVARIANTS TypeOK AnswerStands NoOrphans
